---------------------------- MODULE Spec2Model ----------------------------
(***************************************************************************)
(* A model of the slop-detector scoring pipeline (CyranoB/slop-detector). *)
(*                                                                         *)
(* Strings are sequences of one-character strings.  JavaScript numbers    *)
(* are modelled as exact rationals n/d extended with the IEEE-754 special *)
(* values: d = 0 encodes NaN (n = 0), +Infinity (n = 1) and -Infinity     *)
(* (n = -1).  Rounding error of binary floating point is not modelled.    *)
(***************************************************************************)
EXTENDS Integers, Sequences, FiniteSets, TLC

VARIABLES
    files,         \* content of the three asset files on disk
    loadedAssets,  \* scorer.ts:33  module-level cache (Null until first load)
    text,          \* argument of the call being modelled
    locals,        \* local variables of the last computeEqBenchScore call
    result,        \* value the last call returned (Null before any call)
    calls,         \* per concurrent call of computeEqBenchScore: where it stands
    loads          \* how often the asset files were read and the asset object was built

vars == <<files, loadedAssets, text, locals, result, calls, loads>>

Null == [null |-> TRUE]

(***************************************************************************)
(* Bounds of the model.                                                    *)
(***************************************************************************)
MaxTextLen == 6       \* longest text scored
MaxResults == 2       \* most results in the leaderboard file
MaxSpanTextLen == 4   \* longest text split into sentences
MaxContrastTextLen == 3 \* longest text searched for contrast patterns
MaxStage2Matches == 1 \* most matches of the Stage 2 table in one text
NumCalls == 2         \* concurrent calls of computeEqBenchScore
MaxArgs == 3          \* most command-line arguments
MaxScoreTenths == 1010 \* largest score interpreted, in tenths
MaxPipelineTextLen == 2 \* longest text sent through the whole pipeline
MaxTagged == 2        \* most tokens the tagger returns
MaxCalls == 3         \* calls of computeEqBenchScore made one after the other
MaxRepeatTextLen == 2 \* longest text scored repeatedly
MaxToolTextLen == 2   \* longest text without markup sent to the service and the tool
MaxCoord == 3         \* largest offset of a span or piece boundary
MaxIntervals == 3     \* most spans or pieces in a list
MaxStage2TextLen == 2 \* longest text whose stream is searched by two patterns
MaxTagTextLen == 3    \* longest text handed to tagStreamWithOffsets alone
MaxTagTokens == 2     \* most tokens the tagger returns for it

(***************************************************************************)
(* JavaScript numbers.                                                     *)
(***************************************************************************)
Abs(x) == IF x < 0 THEN -x ELSE x

Sign(x) == IF x < 0 THEN -1 ELSE IF x > 0 THEN 1 ELSE 0

RECURSIVE GCD(_, _)
GCD(a, b) == IF b = 0 THEN a ELSE GCD(b, a % b)

Rat(n, d) ==
    LET g == GCD(Abs(n), d)
    IN  [n |-> n \div g, d |-> d \div g]

NaN == [n |-> 0, d |-> 0]
PosInf == [n |-> 1, d |-> 0]
NegInf == [n |-> -1, d |-> 0]
Num(i) == [n |-> i, d |-> 1]

IsNaN(x) == x.d = 0 /\ x.n = 0
IsFinite(x) == x.d > 0

FNeg(x) == [n |-> -x.n, d |-> x.d]

FAdd(a, b) ==
    IF IsNaN(a) \/ IsNaN(b) THEN NaN
    ELSE IF IsFinite(a) /\ IsFinite(b) THEN Rat(a.n * b.d + b.n * a.d, a.d * b.d)
    ELSE IF IsFinite(a) THEN b
    ELSE IF IsFinite(b) THEN a
    ELSE IF a = b THEN a ELSE NaN

FSub(a, b) == FAdd(a, FNeg(b))

FMul(a, b) ==
    IF IsNaN(a) \/ IsNaN(b) THEN NaN
    ELSE IF IsFinite(a) /\ IsFinite(b) THEN Rat(a.n * b.n, a.d * b.d)
    ELSE IF a.n = 0 \/ b.n = 0 THEN NaN
    ELSE [n |-> Sign(a.n) * Sign(b.n), d |-> 0]

\* IEEE division; the zero divisors that arise here are x - x = +0.
FDiv(a, b) ==
    IF IsNaN(a) \/ IsNaN(b) THEN NaN
    ELSE IF ~IsFinite(a) THEN (IF IsFinite(b) THEN (IF b.n < 0 THEN FNeg(a) ELSE a) ELSE NaN)
    ELSE IF ~IsFinite(b) THEN Num(0)
    ELSE IF b.n = 0 THEN (IF a.n = 0 THEN NaN ELSE [n |-> Sign(a.n), d |-> 0])
    ELSE Rat(a.n * b.d * Sign(b.n), a.d * Abs(b.n))

FLe(a, b) == ~IsNaN(a) /\ ~IsNaN(b) /\ a.n * b.d <= b.n * a.d
FLt(a, b) == ~IsNaN(a) /\ ~IsNaN(b) /\ a # b /\ a.n * b.d <= b.n * a.d

\* Math.min / Math.max: NaN if either argument is NaN.
MathMin(a, b) == IF IsNaN(a) \/ IsNaN(b) THEN NaN ELSE IF FLe(a, b) THEN a ELSE b
MathMax(a, b) == IF IsNaN(a) \/ IsNaN(b) THEN NaN ELSE IF FLe(a, b) THEN b ELSE a

\* Math.round: nearest integer, ties towards +Infinity; NaN and the infinities pass through.
MathRound(x) ==
    IF ~IsFinite(x) THEN x ELSE Num((2 * x.n + x.d) \div (2 * x.d))


(***************************************************************************)
(* Tokenizer (tokenizer.ts).  A character is a one-character string; the  *)
(* characters the code names by escape, the backtick and the double quote *)
(* are written by their code point.                                        *)
(***************************************************************************)
LowerLetters == {"a", "b"}
UpperLetters == {"A", "B"}
Terminators == {".", "!", "?"}
SingleQuoteVariants == {"U+2018", "U+2019", "U+201A", "U+201B", "U+2032", "U+02BC", "U+FF07", "U+0060"}
DoubleQuoteVariants == {"U+201C", "U+201D", "U+201E", "U+201F", "U+2033", "U+00AB", "U+00BB", "U+FF02"}

MapChars(s, f(_)) == [i \in 1..Len(s) |-> f(s[i])]

ToLowerChar(c) == IF c = "A" THEN "a" ELSE IF c = "B" THEN "b" ELSE c

toLowerCase(s) == MapChars(s, ToLowerChar)

NormalizeQuoteChar(c) ==
    IF c \in SingleQuoteVariants THEN "'"
    ELSE IF c \in DoubleQuoteVariants THEN "U+0022"
    ELSE c

normalizeQuotes(s) == MapChars(s, NormalizeQuoteChar)

NormalizeTextChar(c) ==
    IF c \in {"U+201C", "U+201D"} THEN "U+0022"
    ELSE IF c \in {"U+2018", "U+2019"} THEN "'"
    ELSE IF c \in {"U+2014", "U+2013"} THEN "-"
    ELSE c

normalizeText(s) == MapChars(s, NormalizeTextChar)

IsWordChar(c) == c \in LowerLetters \cup {"'"}

\* txt.match(/[a-z']+/g): the maximal runs of word characters, left to right.
RECURSIVE ScanRuns(_, _, _, _)
ScanRuns(s, i, cur, acc) ==
    IF i > Len(s) THEN (IF cur = <<>> THEN acc ELSE Append(acc, cur))
    ELSE IF IsWordChar(s[i]) THEN ScanRuns(s, i + 1, Append(cur, s[i]), acc)
    ELSE ScanRuns(s, i + 1, <<>>, IF cur = <<>> THEN acc ELSE Append(acc, cur))

RECURSIVE DropLeadingApostrophes(_)
DropLeadingApostrophes(t) ==
    IF t # <<>> /\ Head(t) = "'" THEN DropLeadingApostrophes(Tail(t)) ELSE t

RECURSIVE DropTrailingApostrophes(_)
DropTrailingApostrophes(t) ==
    IF t # <<>> /\ t[Len(t)] = "'"
    THEN DropTrailingApostrophes(SubSeq(t, 1, Len(t) - 1))
    ELSE t

\* t.replace(/(?:^'+)|(?:'+$)/g, '')
StripApostrophes(t) == DropTrailingApostrophes(DropLeadingApostrophes(t))

NonEmpty(t) == Len(t) > 0

wordsOnlyLower(s) ==
    LET txt  == normalizeQuotes(toLowerCase(s))
        toks == ScanRuns(txt, 1, <<>>, <<>>)
    IN  SelectSeq([i \in 1..Len(toks) |-> StripApostrophes(toks[i])], NonEmpty)

\* /^[a-z]+(?:'[a-z]+)?$/
IsAlphaToken(t) ==
    LET apos == {i \in 1..Len(t) : t[i] = "'"}
    IN  /\ Len(t) > 0
        /\ \A i \in 1..Len(t) : t[i] \in LowerLetters \cup {"'"}
        /\ \/ apos = {}
           \/ \E i \in 2..(Len(t) - 1) : apos = {i}

alphaTokens(tokens) == SelectSeq(tokens, IsAlphaToken)

\* /[^.!?]*[.!?]/gs applied repeatedly: every span ends just after a terminator;
\* what follows the last terminator becomes the final span.  Spans are [start, end).
RECURSIVE ScanSentences(_, _, _, _)
ScanSentences(s, i, lastEnd, acc) ==
    IF i > Len(s)
    THEN (IF lastEnd < Len(s) THEN Append(acc, <<lastEnd, Len(s)>>) ELSE acc)
    ELSE IF s[i] \in Terminators
         THEN ScanSentences(s, i + 1, i, Append(acc, <<lastEnd, i>>))
         ELSE ScanSentences(s, i + 1, lastEnd, acc)

\* A variant that forgets the text after the last terminator.
sentenceSpans_NoTail(s) ==
    LET sp == ScanSentences(s, 1, 0, <<>>)
    IN  IF s # <<>> /\ s[Len(s)] \notin Terminators THEN SubSeq(sp, 1, Len(sp) - 1) ELSE sp

sentenceSpans(s) == ScanSentences(s, 1, 0, <<>>)

(***************************************************************************)
(* Asset loading (scorer.ts, loadAssets).  A slop-list file is a sequence *)
(* of items; an item records whether it is an array and, if so, the       *)
(* string item[0].  The leaderboard file is a sequence of results; a      *)
(* result is its metrics record, or Null when it has none.                *)
(***************************************************************************)
\* A variant with the pattern and trigram weights exchanged.
SCORING_CONSTANTS_Swapped ==
    [ WEIGHT_WORD        |-> Rat(60, 100),
      WEIGHT_PATTERN     |-> Rat(15, 100),
      WEIGHT_TRIGRAM     |-> Rat(25, 100),
      WORD_MULTIPLIER    |-> Num(1000),
      TRIGRAM_MULTIPLIER |-> Num(1000) ]

SCORING_CONSTANTS ==
    [ WEIGHT_WORD        |-> Rat(60, 100),
      WEIGHT_PATTERN     |-> Rat(25, 100),
      WEIGHT_TRIGRAM     |-> Rat(15, 100),
      WORD_MULTIPLIER    |-> Num(1000),
      TRIGRAM_MULTIPLIER |-> Num(1000) ]

Range(f) == {f[i] : i \in DOMAIN f}

\* for (const item of raw) if (Array.isArray(item) && item[0]) set.add(item[0].toLowerCase())
ParseSlopList(raw) ==
    {toLowerCase(raw[i].item0) : i \in {j \in 1..Len(raw) : raw[j].isArray /\ raw[j].item0 # <<>>}}

\* for (const res of results) if (res.metrics) metrics.<key>.push(res.metrics.<field> || 0)
CollectMetric(results, field) ==
    LET withMetrics == SelectSeq(results, LAMBDA r : r # Null)
    IN  [i \in 1..Len(withMetrics) |-> withMetrics[i][field]]

SeqMin(values) == CHOOSE m \in Range(values) : \A v \in Range(values) : m <= v
SeqMax(values) == CHOOSE m \in Range(values) : \A v \in Range(values) : m >= v

computeRange(values) ==
    IF Len(values) = 0 THEN [min |-> Num(0), max |-> Num(1)]
    ELSE LET min   == Num(SeqMin(values))
             max   == Num(SeqMax(values))
             range == FSub(max, min)
         IN  [ min |-> FSub(min, FMul(range, Rat(1, 10))),
               max |-> FAdd(max, FMul(range, Rat(1, 10))) ]

\* The object loadAssets builds from the three files once they have been read.
BuildAssets(f) ==
    [ words    |-> ParseSlopList(f.words),
      trigrams |-> ParseSlopList(f.trigrams),
      normalizationRanges |->
          [ slop_words    |-> computeRange(CollectMetric(f.leaderboard, "slop_list_matches_per_1k_words")),
            slop_trigrams |-> computeRange(CollectMetric(f.leaderboard, "slop_trigram_matches_per_1k_words")),
            contrast      |-> computeRange(CollectMetric(f.leaderboard, "not_x_but_y_per_1k_chars")) ] ]

(***************************************************************************)
(* Scoring (scorer.ts, computeEqBenchScore).                               *)
(***************************************************************************)
\* A variant that clamps from below only.
normalizeValue_NoUpperClamp(value, range) ==
    IF range = Null THEN Num(0)
    ELSE MathMax(Num(0), FDiv(FSub(value, range.min), FSub(range.max, range.min)))

normalizeValue(value, range) ==
    IF range = Null THEN Num(0)
    ELSE LET normalized == FDiv(FSub(value, range.min), FSub(range.max, range.min))
         IN  MathMax(Num(0), MathMin(Num(1), normalized))

\* `${tokens[i]} ${tokens[i + 1]} ${tokens[i + 2]}`, i counted from 1 here
TrigramAt(tokens, i) == tokens[i] \o <<" ">> \o tokens[i + 1] \o <<" ">> \o tokens[i + 2]

\* The keys tested against a set, in the order the loop visits them.
WordKeys(tokens) == tokens

\* A variant whose loop stops one window early.
TrigramKeys_OffByOne(tokens) ==
    IF Len(tokens) >= 3 THEN [i \in 1..(Len(tokens) - 3) |-> TrigramAt(tokens, i)] ELSE <<>>

TrigramKeys(tokens) ==
    IF Len(tokens) >= 3 THEN [i \in 1..(Len(tokens) - 2) |-> TrigramAt(tokens, i)] ELSE <<>>

\* A variant that counts every distinct hit once.
HitCount_Distinct(keys, set) == Cardinality({keys[i] : i \in {j \in 1..Len(keys) : keys[j] \in set}})

\* hitCount++ for every visited key the set has
HitCount(keys, set) == Cardinality({i \in 1..Len(keys) : keys[i] \in set})

\* The Map of hits: one [key, count] entry per distinct hit, in order of first insertion.
RECURSIVE HitMap(_, _, _)
HitMap(keys, set, acc) ==
    IF keys = <<>> THEN acc
    ELSE LET k == Head(keys)
             at == {i \in 1..Len(acc) : acc[i][1] = k}
         IN  IF k \notin set THEN HitMap(Tail(keys), set, acc)
             ELSE IF at = {} THEN HitMap(Tail(keys), set, Append(acc, <<k, 1>>))
             ELSE HitMap(Tail(keys), set,
                         [i \in 1..Len(acc) |-> IF i \in at THEN <<k, acc[i][2] + 1>> ELSE acc[i]])

\* entries.sort((a, b) => b[1] - a[1]): stable, larger counts first
RECURSIVE SortHitsDesc(_, _)
SortHitsDesc(entries, sorted) ==
    IF entries = <<>> THEN sorted
    ELSE LET e == Head(entries)
             keep == Cardinality({i \in 1..Len(sorted) : sorted[i][2] >= e[2]})
         IN  SortHitsDesc(Tail(entries),
                          SubSeq(sorted, 1, keep) \o <<e>> \o SubSeq(sorted, keep + 1, Len(sorted)))

\* A variant without the `chars > 0` guard.
scoreContrast_Unguarded(txt, matches) ==
    [ hits |-> Len(matches), chars |-> Len(txt),
      rate_per_1k |-> FDiv(Num(Len(matches) * 1000), Num(Len(txt))), matches |-> matches ]

\* scoreContrast (contrastDetector.ts) once the matches have been extracted
scoreContrast(txt, matches) ==
    LET chars == Len(txt)
        rate  == IF chars > 0 THEN Rat(Len(matches) * 1000, chars) ELSE Num(0)
    IN  [hits |-> Len(matches), chars |-> chars, rate_per_1k |-> rate, matches |-> matches]

\* A variant without the `|| 1` guard.
NTokens_Unguarded(tokens) == Len(tokens)

\* tokens.length || 1
NTokens(tokens) == IF Len(tokens) # 0 THEN Len(tokens) ELSE 1

\* The local variables of computeEqBenchScore(text), given the cached assets and
\* the contrast matches found in the text.
ScoreLocals(assets, txt, matches) ==
    LET toks0  == wordsOnlyLower(txt)
        tokens == alphaTokens(toks0)
        nTokens == NTokens(tokens)
        wordHitCount    == HitCount(WordKeys(tokens), assets.words)
        trigramHitCount == HitCount(TrigramKeys(tokens), assets.trigrams)
        wordScore    == FMul(FDiv(Num(wordHitCount), Num(nTokens)), SCORING_CONSTANTS.WORD_MULTIPLIER)
        trigramScore == FMul(FDiv(Num(trigramHitCount), Num(nTokens)), SCORING_CONSTANTS.TRIGRAM_MULTIPLIER)
        contrastResult == scoreContrast(txt, matches)
        contrastScore  == contrastResult.rate_per_1k
        normWords    == normalizeValue(wordScore, assets.normalizationRanges.slop_words)
        normTrigrams == normalizeValue(trigramScore, assets.normalizationRanges.slop_trigrams)
        normContrast == normalizeValue(contrastScore, assets.normalizationRanges.contrast)
        rawSlopScore ==
            FMul(FAdd(FAdd(FMul(normWords, SCORING_CONSTANTS.WEIGHT_WORD),
                           FMul(normContrast, SCORING_CONSTANTS.WEIGHT_PATTERN)),
                      FMul(normTrigrams, SCORING_CONSTANTS.WEIGHT_TRIGRAM)),
                 Num(100))
        slopScore == FDiv(MathRound(FMul(rawSlopScore, Num(10))), Num(10))
    IN  [ tokens |-> tokens, nTokens |-> nTokens,
          wordHitCount |-> wordHitCount, trigramHitCount |-> trigramHitCount,
          wordScore |-> wordScore, trigramScore |-> trigramScore,
          contrastResult |-> contrastResult, contrastScore |-> contrastScore,
          normWords |-> normWords, normTrigrams |-> normTrigrams, normContrast |-> normContrast,
          rawSlopScore |-> rawSlopScore, slopScore |-> slopScore ]

\* The EqBenchScoreResult the call returns.
ScoreResult(assets, txt, l) ==
    [ slopScore |-> l.slopScore,
      wordCount |-> l.nTokens,
      charCount |-> Len(txt),
      metrics |->
          [ slop_list_matches_per_1k_words    |-> l.wordScore,
            slop_trigram_matches_per_1k_words |-> l.trigramScore,
            not_x_but_y_per_1k_chars          |-> l.contrastScore ],
      details |->
          [ wordHits    |-> SortHitsDesc(HitMap(WordKeys(l.tokens), assets.words, <<>>), <<>>),
            trigramHits |-> SortHitsDesc(HitMap(TrigramKeys(l.tokens), assets.trigrams, <<>>), <<>>),
            contrastMatches |-> l.contrastResult.matches ] ]

(***************************************************************************)
(* Contrast detector helpers (contrastDetectorHelpers.ts).  Arrays are    *)
(* 0-based in the code and 1-based here: arr[mid] is arr[mid + 1].         *)
(***************************************************************************)
At0(arr, i) == IF i + 1 \in DOMAIN arr THEN arr[i + 1] ELSE 0

RECURSIVE BisectRightLoop(_, _, _, _)
BisectRightLoop(arr, val, lo, hi) ==
    IF lo < hi
    THEN LET mid == (lo + hi) \div 2
         IN  IF At0(arr, mid) <= val
             THEN BisectRightLoop(arr, val, mid + 1, hi)
             ELSE BisectRightLoop(arr, val, lo, mid)
    ELSE lo

\* A variant that stops at the first element >= val, as bisectLeft does.
bisectRight_Strict(arr, val) == Cardinality({i \in DOMAIN arr : arr[i] < val})

bisectRight(arr, val) == BisectRightLoop(arr, val, 0, Len(arr))

RECURSIVE BisectLeftLoop(_, _, _, _)
BisectLeftLoop(arr, val, lo, hi) ==
    IF lo < hi
    THEN LET mid == (lo + hi) \div 2
         IN  IF At0(arr, mid) < val
             THEN BisectLeftLoop(arr, val, mid + 1, hi)
             ELSE BisectLeftLoop(arr, val, lo, mid)
    ELSE lo

bisectLeft(arr, val) == BisectLeftLoop(arr, val, 0, Len(arr))

\* A variant without the two guards: it answers for every range.
coveredSentenceRange_Unchecked(spans, start, end) ==
    LET starts == [i \in 1..Len(spans) |-> spans[i][1]]
        ends   == [i \in 1..Len(spans) |-> spans[i][2]]
    IN  [lo |-> bisectRight(ends, start), hi |-> bisectLeft(starts, end) - 1]

\* A variant that also answers for an empty range.
coveredSentenceRange_EmptyRange(spans, start, end) ==
    IF Len(spans) = 0 THEN Null
    ELSE LET starts == [i \in 1..Len(spans) |-> spans[i][1]]
             ends   == [i \in 1..Len(spans) |-> spans[i][2]]
             lo == bisectRight(ends, start)
             hi == bisectLeft(starts, end) - 1
         IN  IF lo >= Len(spans) \/ hi < 0 \/ lo > hi THEN Null ELSE [lo |-> lo, hi |-> hi]

\* Null, or the 0-based sentence indexes lo..hi the range [start, end) touches.
coveredSentenceRange(spans, start, end) ==
    IF Len(spans) = 0 \/ start >= end THEN Null
    ELSE LET starts == [i \in 1..Len(spans) |-> spans[i][1]]
             ends   == [i \in 1..Len(spans) |-> spans[i][2]]
             lo == bisectRight(ends, start)
             hi == bisectLeft(starts, end) - 1
         IN  IF lo >= Len(spans) \/ hi < 0 \/ lo > hi THEN Null ELSE [lo |-> lo, hi |-> hi]

Whitespace == {" ", "U+0009", "U+000A", "U+000D"}

RECURSIVE TrimStart(_)
TrimStart(s) == IF s # <<>> /\ Head(s) \in Whitespace THEN TrimStart(Tail(s)) ELSE s

RECURSIVE TrimEnd(_)
TrimEnd(s) ==
    IF s # <<>> /\ s[Len(s)] \in Whitespace THEN TrimEnd(SubSeq(s, 1, Len(s) - 1)) ELSE s

trim(s) == TrimEnd(TrimStart(s))

\* s.substring(from, to) for 0 <= from <= to <= s.length
substring(s, from, to) == SubSeq(s, from + 1, to)

\* The candidate pushed for one match [rs, re) of pattern pname, or Null when the
\* match covers no sentence.
Candidate(tNorm, spans, pname, rs, re) ==
    LET rng == coveredSentenceRange(spans, rs, re)
    IN  IF rng = Null THEN Null
        ELSE [ lo |-> rng.lo, hi |-> rng.hi, raw_start |-> rs, raw_end |-> re,
               pattern_name |-> pname, match_text |-> trim(substring(tNorm, rs, re)) ]

\* found: what matchAll yields over the Stage 1 table, in table order and, within a
\* pattern, in text order; each element is [pname, index, length].
collectStage1Candidates(tNorm, spans, found, prefix) ==
    LET cands == [i \in 1..Len(found) |->
                    Candidate(tNorm, spans, prefix \o found[i].pname,
                              found[i].index, found[i].index + found[i].length)]
    IN  SelectSeq(cands, LAMBDA c : c # Null)

\* A variant that gives up the pass at the first match that cannot be mapped.
collectStage2Candidates_StopAtNull(tNorm, spans, located, prefix) ==
    LET nulls  == {k \in 1..Len(located) : located[k].mapRes = Null}
        mapped == IF nulls = {} THEN located
                  ELSE SubSeq(located, 1, (CHOOSE k \in nulls : \A j \in nulls : k <= j) - 1)
        cands  == [i \in 1..Len(mapped) |->
                    Candidate(tNorm, spans, prefix \o mapped[i].pname,
                              mapped[i].mapRes.rawS, mapped[i].mapRes.rawE)]
    IN  SelectSeq(cands, LAMBDA c : c # Null)

\* located: for every Stage 2 match, in table order, [pname, mapRes] where mapRes is
\* what mapStreamToRaw returned for it: Null or the raw range [rawS, rawE].
collectStage2Candidates(tNorm, spans, located, prefix) ==
    LET mapped == SelectSeq(located, LAMBDA m : m.mapRes # Null)
        cands  == [i \in 1..Len(mapped) |->
                    Candidate(tNorm, spans, prefix \o mapped[i].pname,
                              mapped[i].mapRes.rawS, mapped[i].mapRes.rawE)]
    IN  SelectSeq(cands, LAMBDA c : c # Null)

(***************************************************************************)
(* Contrast detector (contrastDetector.ts).                                *)
(***************************************************************************)
\* A variant of the comparator that looks at hi alone.
IntervalBefore_HiOnly(a, b) == a.hi < b.hi

\* The comparator of mergeIntervals' sort: a is ordered strictly before b.
IntervalBefore(a, b) ==
    IF a.lo # b.lo THEN a.lo < b.lo
    ELSE IF a.hi # b.hi THEN a.hi < b.hi
    ELSE a.raw_start < b.raw_start

\* items.slice().sort(cmp): Array.prototype.sort is stable.
RECURSIVE SortIntervals(_, _)
SortIntervals(items, sorted) ==
    IF items = <<>> THEN sorted
    ELSE LET it   == Head(items)
             keep == Cardinality({i \in 1..Len(sorted) : ~IntervalBefore(it, sorted[i])})
         IN  SortIntervals(Tail(items),
                           SubSeq(sorted, 1, keep) \o <<it>> \o SubSeq(sorted, keep + 1, Len(sorted)))

Max(a, b) == IF a >= b THEN a ELSE b

\* A variant of the loop in which a folded interval hands on its name and text.
RECURSIVE MergeLoop_LastName(_, _, _)
MergeLoop_LastName(rest, cur, merged) ==
    IF rest = <<>> THEN Append(merged, cur)
    ELSE LET it == Head(rest)
         IN  IF it.lo <= cur.hi
             THEN MergeLoop_LastName(Tail(rest),
                                     [cur EXCEPT !.hi = Max(cur.hi, it.hi),
                                                 !.raw_end = Max(cur.raw_end, it.raw_end),
                                                 !.pattern_name = it.pattern_name,
                                                 !.match_text = it.match_text],
                                     merged)
             ELSE MergeLoop_LastName(Tail(rest), it, Append(merged, cur))

\* The loop of mergeIntervals over itemsSorted[1..], with accumulator cur.
RECURSIVE MergeLoop(_, _, _)
MergeLoop(rest, cur, merged) ==
    IF rest = <<>> THEN Append(merged, cur)
    ELSE LET it == Head(rest)
         IN  IF it.lo <= cur.hi
             THEN MergeLoop(Tail(rest),
                            [cur EXCEPT !.hi = Max(cur.hi, it.hi),
                                        !.raw_end = Max(cur.raw_end, it.raw_end)],
                            merged)
             ELSE MergeLoop(Tail(rest), it, Append(merged, cur))

\* A variant that walks the items in the order given, unsorted.
mergeIntervals_Unsorted(items) ==
    IF Len(items) = 0 THEN <<>> ELSE MergeLoop(Tail(items), Head(items), <<>>)

mergeIntervals(items) ==
    IF Len(items) = 0 THEN <<>>
    ELSE LET itemsSorted == SortIntervals(items, <<>>)
         IN  MergeLoop(Tail(itemsSorted), Head(itemsSorted), <<>>)

\* A variant that returns the block of sentences as it stands in the text.
ContrastMatch_Untrimmed(tNorm, spans, it) ==
    [ sentence       |-> substring(tNorm, spans[it.lo + 1][1], spans[it.hi + 1][2]),
      pattern_name   |-> it.pattern_name,
      match_text     |-> it.match_text,
      sentence_count |-> it.hi - it.lo + 1 ]

\* The ContrastMatch built for one merged interval.
ContrastMatch(tNorm, spans, it) ==
    LET blockStart == spans[it.lo + 1][1]
        blockEnd   == spans[it.hi + 1][2]
    IN  [ sentence       |-> trim(substring(tNorm, blockStart, blockEnd)),
          pattern_name   |-> it.pattern_name,
          match_text     |-> it.match_text,
          sentence_count |-> it.hi - it.lo + 1 ]

\* The local variables of extractContrastMatches(text), given what the two regex
\* tables matched.
ExtractLocals(txt, found1, located2) ==
    LET tNorm == normalizeText(txt)
        spans == sentenceSpans(tNorm)
        candidates == collectStage1Candidates(tNorm, spans, found1, <<"S1_">>)
                      \o collectStage2Candidates(tNorm, spans, located2, <<"S2_">>)
        merged  == mergeIntervals(candidates)
        results == [i \in 1..Len(merged) |-> ContrastMatch(tNorm, spans, merged[i])]
    IN  [ tNorm |-> tNorm, spans |-> spans, candidates |-> candidates,
          merged |-> merged, results |-> results ]

extractContrastMatches(txt, found1, located2) == ExtractLocals(txt, found1, located2).results

(***************************************************************************)
(* The tagged stream (contrastDetector.ts, tagStreamWithOffsets) and the   *)
(* way back from it (contrastDetectorHelpers.ts, mapStreamToRaw).  The     *)
(* tagger is an external library: what tagSentence returned is an input,   *)
(* a sequence of tokens [value, pos], or TaggerFailure when it threw.      *)
(* A tag is an atomic string; a StreamPiece is                             *)
(* <<streamStart, streamEnd, rawStart, rawEnd>>.                           *)
(***************************************************************************)
VERB_TAGS == {"VB", "VBD", "VBG", "VBN", "VBP", "VBZ"}
NOUN_TAGS == {"NN", "NNS", "NNP", "NNPS"}
ADJ_TAGS == {"JJ", "JJR", "JJS"}
ADV_TAGS == {"RB", "RBR", "RBS"}

\* A variant that maps every class whatever posType asks for.
getPosReplacement_AnyType(posTag, posType) ==
    IF posTag = "" THEN Null
    ELSE IF posTag \in VERB_TAGS THEN [str |-> <<"V", "E", "R", "B">>]
    ELSE IF posTag \in NOUN_TAGS THEN [str |-> <<"N", "O", "U", "N">>]
    ELSE IF posTag \in ADJ_TAGS THEN [str |-> <<"A", "D", "J">>]
    ELSE IF posTag \in ADV_TAGS THEN [str |-> <<"A", "D", "V">>]
    ELSE Null

\* Null, or the placeholder as [str |-> characters].
getPosReplacement(posTag, posType) ==
    IF posTag = "" THEN Null
    ELSE IF posType = "verb" /\ posTag \in VERB_TAGS THEN [str |-> <<"V", "E", "R", "B">>]
    ELSE IF posType = "noun" /\ posTag \in NOUN_TAGS THEN [str |-> <<"N", "O", "U", "N">>]
    ELSE IF posType = "adj" /\ posTag \in ADJ_TAGS THEN [str |-> <<"A", "D", "J">>]
    ELSE IF posType = "adv" /\ posTag \in ADV_TAGS THEN [str |-> <<"A", "D", "V">>]
    ELSE IF posType = "all" /\ posTag \in VERB_TAGS THEN [str |-> <<"V", "E", "R", "B">>]
    ELSE IF posType = "all" /\ posTag \in NOUN_TAGS THEN [str |-> <<"N", "O", "U", "N">>]
    ELSE IF posType = "all" /\ posTag \in ADJ_TAGS THEN [str |-> <<"A", "D", "J">>]
    ELSE IF posType = "all" /\ posTag \in ADV_TAGS THEN [str |-> <<"A", "D", "V">>]
    ELSE Null

SetMin(S) == CHOOSE m \in S : \A x \in S : m <= x

SetMax(S) == CHOOSE m \in S : \A x \in S : x <= m

\* s.indexOf(value, from), 0-based; -1 when value does not occur at or after from.
indexOf(s, value, from) ==
    LET at == {i \in from..(Len(s) - Len(value)) : SubSeq(s, i + 1, i + Len(value)) = value}
    IN  IF at = {} THEN -1 ELSE SetMin(at)

\* The loop of tagStreamWithOffsets from token i on (1-based); parts is kept joined.
RECURSIVE TagLoop(_, _, _, _, _, _, _, _)
TagLoop(txt, tagged, posType, i, parts, pieces, streamPos, rawPos) ==
    IF i > Len(tagged) THEN [stream |-> parts, pieces |-> pieces]
    ELSE
      LET value      == tagged[i].value
          tokenStart == indexOf(txt, value, rawPos)
      IN  IF tokenStart = -1
          THEN TagLoop(txt, tagged, posType, i + 1, parts, pieces, streamPos, rawPos + Len(value))
          ELSE
            LET replacement == getPosReplacement(tagged[i].pos, posType)
                out      == IF replacement # Null THEN replacement.str ELSE value
                parts1   == parts \o out
                pieces1  == Append(pieces, <<streamPos, streamPos + Len(out),
                                             tokenStart, tokenStart + Len(value)>>)
                streamPos1 == streamPos + Len(out)
                rawPos1    == tokenStart + Len(value)
                nextPos    == IF i < Len(tagged) THEN indexOf(txt, tagged[i + 1].value, rawPos1) ELSE -1
            IN  IF i >= Len(tagged)
                THEN TagLoop(txt, tagged, posType, i + 1, parts1, pieces1, streamPos1, rawPos1)
                ELSE IF nextPos > rawPos1
                THEN TagLoop(txt, tagged, posType, i + 1,
                             parts1 \o substring(txt, rawPos1, nextPos),
                             Append(pieces1, <<streamPos1, streamPos1 + (nextPos - rawPos1),
                                               rawPos1, nextPos>>),
                             streamPos1 + (nextPos - rawPos1), nextPos)
                ELSE TagLoop(txt, tagged, posType, i + 1,
                             parts1 \o <<" ">>,
                             Append(pieces1, <<streamPos1, streamPos1 + 1, rawPos1, rawPos1>>),
                             streamPos1 + 1, rawPos1)

tagStreamWithOffsets(txt, tagged, posType) == TagLoop(txt, tagged, posType, 1, <<>>, <<>>, 0, 0)

\* A variant that takes the raw start of the first piece and the raw end of the last.
mapStreamToRaw_FirstLast(pieces, streamStart, streamEnd) ==
    LET starts == [k \in 1..Len(pieces) |-> pieces[k][1]]
        ends   == [k \in 1..Len(pieces) |-> pieces[k][2]]
        i == bisectRight(ends, streamStart)
        j == bisectLeft(starts, streamEnd) - 1
    IN  IF i >= Len(pieces) \/ j < i THEN Null
        ELSE [rawS |-> pieces[i + 1][3], rawE |-> pieces[j + 1][4]]

\* Null, or the raw range [rawS, rawE] of the pieces the stream range touches.
mapStreamToRaw(pieces, streamStart, streamEnd) ==
    LET starts == [k \in 1..Len(pieces) |-> pieces[k][1]]
        ends   == [k \in 1..Len(pieces) |-> pieces[k][2]]
        i == bisectRight(ends, streamStart)
        j == bisectLeft(starts, streamEnd) - 1
    IN  IF i >= Len(pieces) \/ j < i THEN Null
        ELSE [ rawS |-> SetMin({pieces[k][3] : k \in (i + 1)..(j + 1)}),
               rawE |-> SetMax({pieces[k][4] : k \in (i + 1)..(j + 1)}) ]

\* What collectStage2Candidates gets from mapStreamToRaw for the matches found2 of
\* the Stage 2 table in the stream, in order.
LocateStage2(pieces, found2) ==
    [k \in 1..Len(found2) |->
        [ pname  |-> found2[k].pname,
          mapRes |-> mapStreamToRaw(pieces, found2[k].index, found2[k].index + found2[k].length) ]]

TaggerFailure == [threw |-> "TaggerError"]

Threw(outcome) == "threw" \in DOMAIN outcome

\* F applied to the value of e: e is computed once, as a const declaration does.
Eval(e, F(_)) == CHOOSE y \in {F(x) : x \in {e}} : TRUE

\* spans[sLo]![0] and spans[sHi]![1] read a property of undefined.
ContrastMatchThrows(spans, it) ==
    (it.lo + 1) \notin DOMAIN spans \/ (it.hi + 1) \notin DOMAIN spans

\* A variant that swallows a tagger failure and goes on with Stage 1 alone.
ExtractOutcome_SkipStage2(txt, found1, tagging, found2) ==
    LET tNorm  == normalizeText(txt)
        spans  == sentenceSpans(tNorm)
        merged == mergeIntervals(collectStage1Candidates(tNorm, spans, found1, <<"S1_">>))
    IN  [ matches    |-> [k \in 1..Len(merged) |-> ContrastMatch(tNorm, spans, merged[k])],
          candidates |-> merged, stream |-> <<>>, pieces |-> <<>> ]

\* extractContrastMatches(text) as its caller sees it: [matches |-> ...] when it
\* returns, [threw |-> ...] when it throws.  found2(stream) are the matches of the
\* Stage 2 table in the stream.
ExtractOutcome(txt, found1, tagging, found2) ==
    IF Threw(tagging) THEN tagging
    ELSE
      LET tNorm  == normalizeText(txt)
          spans  == sentenceSpans(tNorm)
          tagged == tagStreamWithOffsets(tNorm, tagging.tagged, "verb")
          candidates == collectStage1Candidates(tNorm, spans, found1, <<"S1_">>)
                        \o collectStage2Candidates(tNorm, spans,
                               LocateStage2(tagged.pieces, found2), <<"S2_">>)
          merged == mergeIntervals(candidates)
      IN  IF \E k \in 1..Len(merged) : ContrastMatchThrows(spans, merged[k])
          THEN [threw |-> "TypeError"]
          ELSE [ matches    |-> [k \in 1..Len(merged) |-> ContrastMatch(tNorm, spans, merged[k])],
                 candidates |-> candidates,
                 stream     |-> tagged.stream,
                 pieces     |-> tagged.pieces ]

\* scoreContrast(text) as its caller sees it.
scoreContrastOutcome(txt, found1, tagging, found2) ==
    Eval(ExtractOutcome(txt, found1, tagging, found2), LAMBDA e :
        IF Threw(e) THEN e ELSE scoreContrast(txt, e.matches))

AssetsUnavailable == [threw |-> "Error: Failed to load SLOP scoring assets"]

\* A variant of loadAssets that answers a failed read with empty assets.
loadAssetsOutcome_Swallow(cache, readable, f) ==
    IF cache # Null THEN [assets |-> cache]
    ELSE IF ~readable
    THEN [assets |-> BuildAssets([words |-> <<>>, trigrams |-> <<>>, leaderboard |-> <<>>])]
    ELSE [assets |-> BuildAssets(f)]

\* loadAssets() as its caller sees it, given the cache and whether the files can be
\* read: [assets |-> ...] or [threw |-> ...].
loadAssetsOutcome(cache, readable, f) ==
    IF cache # Null THEN [assets |-> cache]
    ELSE IF ~readable THEN AssetsUnavailable
    ELSE [assets |-> BuildAssets(f)]

\* computeEqBenchScore(text) as its caller sees it, given the assets loadAssets
\* returned: the EqBenchScoreResult, or [threw |-> ...].
computeEqBenchScoreOutcome(loaded, txt, found1, tagging, found2) ==
    IF Threw(loaded) THEN loaded
    ELSE
      Eval(scoreContrastOutcome(txt, found1, tagging, found2), LAMBDA c :
          IF Threw(c) THEN c
          ELSE Eval(ScoreLocals(loaded.assets, txt, c.matches), LAMBDA l :
                   ScoreResult(loaded.assets, txt, l)))

(***************************************************************************)
(* Bounded inputs.                                                         *)
(***************************************************************************)
Strings(alphabet, maxLen) == UNION {[1..n -> alphabet] : n \in 0..maxLen}

\* What matchAll can yield for one global regex over a string of length n, from
\* position `from` on: matches are non-empty, in text order and do not overlap.
RECURSIVE MatchSeqs(_, _)
MatchSeqs(from, n) ==
    {<<>>} \cup UNION { UNION { { <<[index |-> i, length |-> l]>> \o rest : rest \in MatchSeqs(i + l, n) }
                              : l \in 1..(n - i) }
                      : i \in from..(n - 1) }

\* The asset files: slop lists and leaderboards built from a few entries.
SlopItem(str) == [isArray |-> TRUE, item0 |-> str]

NotAnArray == [isArray |-> FALSE, item0 |-> <<>>]

WordFiles == { <<>>, <<SlopItem(<<"A">>), SlopItem(<<>>), NotAnArray>> }

TrigramFiles == { <<>>, <<SlopItem(<<"a", " ", "a", " ", "A">>)>> }

LeaderboardRows ==
    { Null,
      [ slop_list_matches_per_1k_words |-> 0, slop_trigram_matches_per_1k_words |-> 0,
        not_x_but_y_per_1k_chars |-> 0 ],
      [ slop_list_matches_per_1k_words |-> 500, slop_trigram_matches_per_1k_words |-> 400,
        not_x_but_y_per_1k_chars |-> 200 ] }

Leaderboards == UNION {[1..n -> LeaderboardRows] : n \in 0..MaxResults}

AssetFiles ==
    { [words |-> w, trigrams |-> t, leaderboard |-> b] :
        w \in WordFiles, t \in TrigramFiles, b \in Leaderboards }

ScoreTexts == Strings({"a", " "}, MaxTextLen)

(***************************************************************************)
(* Specification of scoring: the first call of computeEqBenchScore in a   *)
(* process, over asset files that read without error.                      *)
(***************************************************************************)
NoLoads == [reads |-> 0, builds |-> 0]

InitScore ==
    /\ files \in AssetFiles
    /\ loadedAssets = Null
    /\ text = <<>>
    /\ locals = Null
    /\ result = Null
    /\ calls = <<>>
    /\ loads = NoLoads

\* computeEqBenchScore(t); the Stage 1 table matches the whole text or nothing.
Score(t, found1) ==
    LET assets  == IF loadedAssets # Null THEN loadedAssets ELSE BuildAssets(files)
        matches == extractContrastMatches(t, found1, <<>>)
        l       == ScoreLocals(assets, t, matches)
    IN  /\ result = Null
        /\ loadedAssets' = assets
        /\ loads' = IF loadedAssets # Null THEN loads ELSE [reads |-> 1, builds |-> 1]
        /\ text' = t
        /\ locals' = l
        /\ result' = ScoreResult(assets, t, l)
        /\ UNCHANGED <<files, calls>>

WholeTextMatch(t) ==
    {<<>>} \cup {<<[pname |-> <<"only">>, index |-> 0, length |-> Len(t)]>> : x \in {t} \ {<<>>}}

\* One call per behaviour.
NextScore ==
    /\ result = Null
    /\ \E t \in ScoreTexts : \E found1 \in WholeTextMatch(t) : Score(t, found1)

SpecScore == InitScore /\ [][NextScore]_vars

(***************************************************************************)
(* Specification of sentence segmentation: sentenceSpans on one text.      *)
(***************************************************************************)
SpanTexts == Strings({"a", ".", "?"}, MaxSpanTextLen)

InitSpans ==
    /\ files = Null
    /\ loadedAssets = Null
    /\ text \in SpanTexts
    /\ locals = Null
    /\ result = Null
    /\ calls = <<>>
    /\ loads = NoLoads

Spans ==
    /\ result = Null
    /\ result' = [spans |-> sentenceSpans(text)]
    /\ UNCHANGED <<files, loadedAssets, text, locals, calls, loads>>

NextSpans == Spans

SpecSpans == InitSpans /\ [][NextSpans]_vars

(***************************************************************************)
(* Specification of the contrast detector: scoreContrast on one text.  The *)
(* matches of the two regex tables are inputs: one Stage 1 pattern and one *)
(* Stage 2 pattern match anywhere; a Stage 2 match arrives as the raw      *)
(* range mapStreamToRaw located it at.                                     *)
(***************************************************************************)
ContrastTexts == Strings({"a", "."}, MaxContrastTextLen)

Stage1Found(n) ==
    { [i \in 1..Len(ms) |-> [pname |-> <<"only">>, index |-> ms[i].index, length |-> ms[i].length]]
        : ms \in MatchSeqs(0, n) }

\* Raw ranges of successive stream matches: neither bound ever moves left.
RawRanges(n) == {Null} \cup {[rawS |-> a, rawE |-> b] : a \in 0..n, b \in 0..n}

Stage2Located(n) ==
    { [i \in 1..Len(rs) |-> [pname |-> <<"POS_DOESNT_VERB">>, mapRes |-> rs[i]]]
        : rs \in { q \in UNION {[1..k -> RawRanges(n)] : k \in 0..MaxStage2Matches} :
                     /\ \A i \in 1..Len(q) : q[i] # Null => q[i].rawS <= q[i].rawE
                     /\ \A i, j \in 1..Len(q) :
                            (i < j /\ q[i] # Null /\ q[j] # Null)
                                => (q[i].rawS <= q[j].rawS /\ q[i].rawE <= q[j].rawE) } }

InitContrast ==
    /\ files = Null
    /\ loadedAssets = Null
    /\ text \in ContrastTexts
    /\ locals = Null
    /\ result = Null
    /\ calls = <<>>
    /\ loads = NoLoads

Contrast(found1, located2) ==
    LET l == ExtractLocals(text, found1, located2)
    IN  /\ result = Null
        /\ locals' = l
        /\ result' = scoreContrast(text, l.results)
        /\ UNCHANGED <<files, loadedAssets, text, calls, loads>>

\* One call per behaviour.
NextContrast ==
    /\ result = Null
    /\ \E found1 \in Stage1Found(Len(text)) :
           \E located2 \in Stage2Located(Len(text)) : Contrast(found1, located2)

SpecContrast == InitContrast /\ [][NextContrast]_vars

(***************************************************************************)
(* Specification of asset loading: NumCalls calls of computeEqBenchScore   *)
(* interleave on the event loop.  A call runs without interruption up to   *)
(* its await of the file reads and again from the reads' completion on.    *)
(***************************************************************************)
Callers == 1..NumCalls

InitLoad ==
    /\ files \in AssetFiles
    /\ loadedAssets = Null
    /\ text = <<>>
    /\ locals = Null
    /\ result = Null
    /\ calls = [c \in Callers |-> [pc |-> "idle", startedLoaded |-> FALSE, readFiles |-> FALSE]]
    /\ loads = NoLoads

\* computeEqBenchScore is called: loadAssets returns the cache or starts the reads.
Start(c) ==
    /\ calls[c].pc = "idle"
    /\ IF loadedAssets # Null
       THEN /\ calls' = [calls EXCEPT ![c] = [pc |-> "scoring", startedLoaded |-> TRUE, readFiles |-> FALSE]]
            /\ loads' = loads
       ELSE /\ calls' = [calls EXCEPT ![c] = [pc |-> "reading", startedLoaded |-> FALSE, readFiles |-> TRUE]]
            /\ loads' = [loads EXCEPT !.reads = @ + 1]
    /\ UNCHANGED <<files, loadedAssets, text, locals, result>>

\* Promise.all resolves: the files are parsed, the object is built and cached.
ReadDone(c) ==
    /\ calls[c].pc = "reading"
    /\ loadedAssets' = BuildAssets(files)
    /\ loads' = [loads EXCEPT !.builds = @ + 1]
    /\ calls' = [calls EXCEPT ![c].pc = "scoring"]
    /\ UNCHANGED <<files, text, locals, result>>

\* Promise.all rejects: loadAssets throws, the call rejects.
ReadFailed(c) ==
    /\ calls[c].pc = "reading"
    /\ calls' = [calls EXCEPT ![c].pc = "failed"]
    /\ UNCHANGED <<files, loadedAssets, text, locals, result, loads>>

\* The rest of the call, from `await loadAssets()` to the return.
Finish(c) ==
    /\ calls[c].pc = "scoring"
    /\ calls' = [calls EXCEPT ![c].pc = "done"]
    /\ UNCHANGED <<files, loadedAssets, text, locals, result, loads>>

NextLoad == \E c \in Callers : Start(c) \/ ReadDone(c) \/ ReadFailed(c) \/ Finish(c)

SpecLoad == InitLoad /\ [][NextLoad]_vars

(***************************************************************************)
(* Properties of scoring, checked under SpecScore.                         *)
(***************************************************************************)
Scored == result # Null

InUnit(x) == IsFinite(x) /\ FLe(Num(0), x) /\ FLe(x, Num(1))

\* x rounded to one decimal place, halves away from zero.
Round1(x) == Rat(Sign(x.n) * ((20 * Abs(x.n) + x.d) \div (2 * x.d)), 10)

IsInteger(x) == IsFinite(x) /\ x.d = 1

\* C1: for normalized sub-scores (w, p, t) in [0,1] the returned slopScore is
\* 100 * (0.60 w + 0.25 p + 0.15 t) rounded to one decimal place, halves away from
\* zero, and the three weights sum to 1.
C1_CompositeScore ==
    Scored =>
        LET w == locals.normWords
            p == locals.normContrast
            t == locals.normTrigrams
        IN  /\ FAdd(FAdd(SCORING_CONSTANTS.WEIGHT_WORD, SCORING_CONSTANTS.WEIGHT_PATTERN),
                    SCORING_CONSTANTS.WEIGHT_TRIGRAM) = Num(1)
            /\ (InUnit(w) /\ InUnit(p) /\ InUnit(t)) =>
                   result.slopScore =
                       Round1(FAdd(FAdd(FMul(Num(60), w), FMul(Num(25), p)), FMul(Num(15), t)))

\* A score whose three sub-scores are numbers, two of them strictly inside (0,1),
\* and which the rounding changed.
C1_Witness ==
    /\ Scored
    /\ InUnit(locals.normWords) /\ InUnit(locals.normContrast) /\ InUnit(locals.normTrigrams)
    /\ FLt(Num(0), locals.normWords) /\ FLt(locals.normWords, Num(1))
    /\ FLt(Num(0), locals.normContrast) /\ FLt(locals.normContrast, Num(1))
    /\ ~IsInteger(FMul(locals.rawSlopScore, Num(10)))

\* C2: the returned slopScore is a number between 0 and 100, never NaN.
C2_ScoreInRange ==
    Scored => /\ IsFinite(result.slopScore)
              /\ FLe(Num(0), result.slopScore)
              /\ FLe(result.slopScore, Num(100))

WindowCount(tokens) == IF Len(tokens) >= 3 THEN Len(tokens) - 2 ELSE 0

TrigramHits(tokens, set) ==
    Cardinality({i \in 1..WindowCount(tokens) : TrigramAt(tokens, i) \in set})

\* C6 as claimed: the trigram rate is hits / max(1, number of 3-token windows) * 1000.
C6_TrigramRatePerWindow ==
    Scored =>
        result.metrics.slop_trigram_matches_per_1k_words =
            Rat(TrigramHits(locals.tokens, loadedAssets.trigrams) * 1000,
                Max(1, WindowCount(locals.tokens)))

\* C6 as amended: the trigram rate is hits / max(1, number of tokens) * 1000, where
\* hits counts the 3-token windows found in the trigram set.
C6_TrigramRatePerToken ==
    Scored =>
        result.metrics.slop_trigram_matches_per_1k_words =
            Rat(TrigramHits(locals.tokens, loadedAssets.trigrams) * 1000,
                Max(1, Len(locals.tokens)))

\* A score of a text with three tokens or more, the last window of which is a hit.
C6_Witness ==
    /\ Scored
    /\ Len(locals.tokens) >= 3
    /\ TrigramAt(locals.tokens, Len(locals.tokens) - 2) \in loadedAssets.trigrams

\* C7: the word rate is (tokens that are in the word set, with multiplicity)
\* / max(1, number of tokens) * 1000.
C7_WordRate ==
    Scored =>
        result.metrics.slop_list_matches_per_1k_words =
            Rat(Cardinality({i \in 1..Len(locals.tokens) : locals.tokens[i] \in loadedAssets.words}) * 1000,
                Max(1, Len(locals.tokens)))

\* A score of a text in which one word of the set occurs twice, beside another token.
C7_Witness ==
    /\ Scored
    /\ \E i, j \in 1..Len(locals.tokens) :
           i # j /\ locals.tokens[i] = locals.tokens[j] /\ locals.tokens[i] \in loadedAssets.words
    /\ \E i \in 1..Len(locals.tokens) : locals.tokens[i] \notin loadedAssets.words

\* The three (rate, range, normalized value) triples of a call.
Normalizations ==
    { [rate |-> locals.wordScore, range |-> loadedAssets.normalizationRanges.slop_words,
       norm |-> locals.normWords],
      [rate |-> locals.trigramScore, range |-> loadedAssets.normalizationRanges.slop_trigrams,
       norm |-> locals.normTrigrams],
      [rate |-> locals.contrastScore, range |-> loadedAssets.normalizationRanges.contrast,
       norm |-> locals.normContrast] }

Clamp01(x) == IF FLt(x, Num(0)) THEN Num(0) ELSE IF FLt(Num(1), x) THEN Num(1) ELSE x

C9_ZeroSpanIsZero ==
    Scored =>
        \A z \in Normalizations : z.range.min = z.range.max => z.norm = Num(0)

\* C10: with fewer than 3 tokens the trigram rate is the number 0, and with no
\* token the word rate and the trigram rate are both the number 0.
C10_ShortInputRates ==
    Scored =>
        /\ Len(locals.tokens) < 3 => result.metrics.slop_trigram_matches_per_1k_words = Num(0)
        /\ Len(locals.tokens) = 0 =>
               /\ result.metrics.slop_list_matches_per_1k_words = Num(0)
               /\ result.metrics.slop_trigram_matches_per_1k_words = Num(0)

\* A score of a non-empty text without any token, over non-empty slop lists.
C10_Witness ==
    /\ Scored
    /\ text # <<>>
    /\ locals.tokens = <<>>
    /\ loadedAssets.words # {} /\ loadedAssets.trigrams # {}

(***************************************************************************)
(* Properties of sentence segmentation, checked under SpecSpans.           *)
(***************************************************************************)
\* C4: the spans are sorted ascending, do not overlap, their union is exactly
\* [0, length of text), and the text after the last terminator is one final span.
C4_SpansTileText ==
    result # Null =>
        LET sp == result.spans
            n  == Len(text)
            lastTerminator == SetMax({0} \cup {i \in 1..n : text[i] \in Terminators})
        IN  /\ \A i, j \in 1..Len(sp) : i < j => sp[i][1] < sp[j][1]
            /\ \A i, j \in 1..Len(sp) : i < j => sp[i][2] <= sp[j][1]
            /\ UNION {sp[i][1]..(sp[i][2] - 1) : i \in 1..Len(sp)} = 0..(n - 1)
            /\ lastTerminator < n => sp[Len(sp)] = <<lastTerminator, n>>

\* Spans of a text with two terminated sentences and an unterminated rest.
C4_Witness ==
    /\ result # Null
    /\ Len(result.spans) = 3
    /\ text[Len(text)] \notin Terminators

(***************************************************************************)
(* Properties of the contrast detector, checked under SpecContrast.        *)
(***************************************************************************)
SentenceRange(it) == it.lo..it.hi

\* C3: the merged matches cover pairwise disjoint sentence-index ranges, one per
\* returned match, and every candidate's range [lo, hi] lies within the range of
\* exactly one of them.
C3_MergeInvariant ==
    result # Null =>
        LET m == locals.merged
            c == locals.candidates
        IN  /\ Len(result.matches) = Len(m)
            /\ \A i, j \in 1..Len(m) : i # j => SentenceRange(m[i]) \cap SentenceRange(m[j]) = {}
            /\ \A k \in 1..Len(c) :
                   Cardinality({j \in 1..Len(m) : SentenceRange(c[k]) \subseteq SentenceRange(m[j])}) = 1

\* Three or more candidates, not in sorted order, merged into two or more matches,
\* one of which absorbed a candidate that starts in a later sentence than its seed.
C3_Witness ==
    /\ result # Null
    /\ Len(locals.candidates) >= 3
    /\ \E k \in 1..(Len(locals.candidates) - 1) :
           locals.candidates[k].lo > locals.candidates[k + 1].lo
    /\ Len(locals.merged) >= 2
    /\ \E j \in 1..Len(locals.merged) : \E k \in 1..Len(locals.candidates) :
           /\ locals.candidates[k].lo > locals.merged[j].lo
           /\ locals.candidates[k].hi <= locals.merged[j].hi

(***************************************************************************)
(* Properties of asset loading, checked under SpecLoad.                    *)
(***************************************************************************)
\* C5: the asset files are read and the asset object is built at most once, and a
\* call that starts after a load completed reads no file.
C5_SingleLoad ==
    /\ loads.reads <= 1
    /\ loads.builds <= 1
    /\ \A c \in Callers : calls[c].startedLoaded => ~calls[c].readFiles

(***************************************************************************)
(* Specification of the whole pipeline: one call of computeEqBenchScore   *)
(* over readable asset files, with the tagger's answer and the matches of  *)
(* the two regex tables as inputs.  `locals` holds those inputs and what   *)
(* extractContrastMatches and scoreContrast gave.                          *)
(***************************************************************************)
PipelineTexts == Strings({"a", ".", " "}, MaxPipelineTextLen)

\* Tokens the tagger may return; "b" occurs in no text, so it cannot be re-located.
TagTokens == {[value |-> v, pos |-> p] : v \in {<<"a">>, <<"b">>}, p \in {"VB", "NN"}}

Taggings ==
    {TaggerFailure} \cup {[tagged |-> q] : q \in UNION {[1..n -> TagTokens] : n \in 0..MaxTagged}}

\* One regex of a table on a string of length n: no match, or one match anywhere,
\* the empty match included.
SingleMatches(pname, n) ==
    {<<>>} \cup UNION { {<<[pname |-> pname, index |-> i, length |-> l]>> : l \in 0..(n - i)}
                         : i \in 0..n }

\* The Stage 1 table matches nothing, the whole text, or the empty string at its end.
Stage1Matches(t) ==
    {m \in SingleMatches(<<"only">>, Len(t)) :
        m = <<>> \/ (m[1].index = 0 /\ m[1].length = Len(t)) \/ (m[1].index = Len(t))}

\* The stream tagStreamWithOffsets builds for text t when the tagger answered.
StreamOf(t, tagging) ==
    IF Threw(tagging) THEN <<>>
    ELSE tagStreamWithOffsets(normalizeText(t), tagging.tagged, "verb").stream

PipelineFiles ==
    { [ words |-> <<SlopItem(<<"A">>)>>,
        trigrams |-> <<>>,
        leaderboard |-> <<b>> ] : b \in {r \in LeaderboardRows \ {Null} :
                                             r.slop_list_matches_per_1k_words > 0} }

InitPipeline ==
    /\ files \in PipelineFiles
    /\ loadedAssets = Null
    /\ text \in PipelineTexts
    /\ locals = Null
    /\ result = Null
    /\ calls = <<>>
    /\ loads = NoLoads

\* computeEqBenchScore(text)
Pipeline(found1, tagging, found2) ==
    LET loaded == loadAssetsOutcome(loadedAssets, TRUE, files)
    IN  /\ loadedAssets' = loaded.assets
        /\ loads' = [reads |-> loads.reads + 1, builds |-> loads.builds + 1]
        /\ locals' = [ found1 |-> found1, tagging |-> tagging, found2 |-> found2,
                       extract  |-> ExtractOutcome(text, found1, tagging, found2),
                       contrast |-> scoreContrastOutcome(text, found1, tagging, found2) ]
        /\ result' = computeEqBenchScoreOutcome(loaded, text, found1, tagging, found2)
        /\ UNCHANGED <<files, text, calls>>

\* One call per behaviour.
NextPipeline ==
    /\ result = Null
    /\ \E found1 \in Stage1Matches(text) : \E tagging \in Taggings :
           \E found2 \in SingleMatches(<<"POS_DOESNT_VERB">>, Len(StreamOf(text, tagging))) :
               Pipeline(found1, tagging, found2)

SpecPipeline == InitPipeline /\ [][NextPipeline]_vars

(***************************************************************************)
(* Specification of repeated calls: up to MaxCalls calls of                *)
(* computeEqBenchScore, one after the other, in one process, while the     *)
(* asset files become unreadable and readable again.  `text` is the text   *)
(* whose results are compared; `calls` holds what the calls on it          *)
(* returned.  `locals` holds the state that outlives a call besides the    *)
(* cache: the regex objects of the two tables; and whether the files can   *)
(* be read, the number of calls made and the circumstances of the last.    *)
(* Each table is one global regex whose source is a literal, and the       *)
(* tagger is a fixed function of the text.                                 *)
(***************************************************************************)
\* str.matchAll(regex) for a global regex with a literal source: the matches at or
\* after `from`, left to right, not overlapping.
RECURSIVE LiteralMatches(_, _, _)
LiteralMatches(s, source, from) ==
    LET at == indexOf(s, source, from)
    IN  IF at = -1 THEN <<>>
        ELSE <<[index |-> at, length |-> Len(source)]>>
             \o LiteralMatches(s, source, at + Len(source))

\* matchAll starts its search at the regex's lastIndex.
matchAll(s, pname, regex) ==
    LET ms == LiteralMatches(s, regex.source, regex.lastIndex)
    IN  [k \in 1..Len(ms) |-> [pname |-> pname, index |-> ms[k].index, length |-> ms[k].length]]

\* A variant that searches with the table's own regex object, as regex.exec does:
\* lastIndex is left after the first match, or reset to 0 when there is none.
lastIndexAfterExec(regex, s) ==
    LET ms == LiteralMatches(s, regex.source, regex.lastIndex)
    IN  IF ms = <<>> THEN 0 ELSE ms[1].index + ms[1].length

\* The lastIndex of the table's regex after s.matchAll(regex): matchAll iterates a
\* copy of the regex, so the regex of the table is left as it was.
lastIndexAfterMatchAll(regex, s) == regex.lastIndex

\* The tagger: a maximal run of letters is a word, a verb when it is one letter
\* long and a noun otherwise; a terminator is a token of its own.
RECURSIVE TagScan(_, _)
TagScan(s, i) ==
    IF i > Len(s) THEN <<>>
    ELSE IF s[i] = "a"
    THEN LET j == SetMin({k \in (i + 1)..(Len(s) + 1) : k > Len(s) \/ s[k] # "a"})
         IN  <<[value |-> SubSeq(s, i, j - 1), pos |-> IF j - i = 1 THEN "VB" ELSE "NN"]>>
             \o TagScan(s, j)
    ELSE IF s[i] = "."
    THEN <<[value |-> <<".">>, pos |-> "."]>> \o TagScan(s, i + 1)
    ELSE TagScan(s, i + 1)

tagSentence(s) == [tagged |-> TagScan(s, 1)]

RepeatTexts == Strings({"a", "."}, MaxRepeatTextLen)

STAGE1_REGEXES == [source |-> <<"a", ".">>, lastIndex |-> 0]

STAGE2_REGEXES == [source |-> <<"V", "E", "R", "B">>, lastIndex |-> 0]

InitRepeat ==
    /\ files \in PipelineFiles
    /\ loadedAssets = Null
    /\ text \in RepeatTexts
    /\ locals \in { [ readable |-> r, stage1 |-> STAGE1_REGEXES, stage2 |-> STAGE2_REGEXES,
                      n |-> 0, lastCall |-> Null, failed |-> 0 ] : r \in BOOLEAN }
    /\ result = Null
    /\ calls = <<>>
    /\ loads = NoLoads

\* The asset files become unreadable (removed, permissions) or readable again.
SetReadable(b) ==
    /\ locals.readable # b
    /\ locals' = [locals EXCEPT !.readable = b]
    /\ UNCHANGED <<files, loadedAssets, text, result, calls, loads>>

\* computeEqBenchScore(t), from the call to its return or its exception.
Call(t) ==
    /\ locals.n < MaxCalls
    /\ \E loaded \in {loadAssetsOutcome(loadedAssets, locals.readable, files)} :
       \E tNorm \in {normalizeText(t)} :
       \E tagging \in {tagSentence(tNorm)} :
       \E stream \in {StreamOf(t, tagging)} :
       \E found1 \in {matchAll(tNorm, <<"only">>, locals.stage1)} :
       \E found2 \in {matchAll(stream, <<"POS_VERB">>, locals.stage2)} :
       \E outcome \in {computeEqBenchScoreOutcome(loaded, t, found1, tagging, found2)} :
        /\ loadedAssets' = IF Threw(loaded) THEN loadedAssets ELSE loaded.assets
        /\ loads' = IF loadedAssets # Null THEN loads
                    ELSE [ reads  |-> loads.reads + 1,
                           builds |-> loads.builds + (IF Threw(loaded) THEN 0 ELSE 1) ]
        /\ locals' = [ readable |-> locals.readable,
                       stage1 |-> IF Threw(loaded) THEN locals.stage1
                                  ELSE [locals.stage1 EXCEPT
                                          !.lastIndex = lastIndexAfterMatchAll(locals.stage1, tNorm)],
                       stage2 |-> IF Threw(loaded) THEN locals.stage2
                                  ELSE [locals.stage2 EXCEPT
                                          !.lastIndex = lastIndexAfterMatchAll(locals.stage2, stream)],
                       n |-> locals.n + 1,
                       lastCall |-> [ readable |-> locals.readable, cacheBefore |-> loadedAssets,
                                      readsBefore |-> loads.reads ],
                       failed |-> locals.failed + (IF Threw(loaded) THEN 1 ELSE 0) ]
        /\ result' = outcome
        /\ calls' = IF t = text /\ ~Threw(outcome)
                    THEN Append(calls, [ at |-> locals.n + 1, assets |-> loaded.assets,
                                         outcome |-> outcome ])
                    ELSE calls
        /\ UNCHANGED <<files, text>>

NextRepeat ==
    \/ \E b \in BOOLEAN : SetReadable(b)
    \/ \E t \in RepeatTexts : Call(t)

SpecRepeat == InitRepeat /\ [][NextRepeat]_vars

(***************************************************************************)
(* Text normalizer (textNormalizer.ts), scoring service                    *)
(* (slopScoreService.ts) and MCP tool (scoreTextTool.ts).                  *)
(***************************************************************************)
\* The index of the first character at or after i that is not in set, Len(s) + 1
\* when there is none.
LeadingRun(s, i, set) ==
    SetMin({k \in i..(Len(s) + 1) : k > Len(s) \/ s[k] \notin set})

\* htmlToText(html, ...): a tag, "<" followed by a letter up to the next ">", is
\* dropped; the library's handling of entities and white space is left out.
RECURSIVE StripTags(_, _)
StripTags(s, from) ==
    Eval(from, LAMBDA i :
        IF i > Len(s) THEN <<>>
        ELSE LET closes == {j \in (i + 2)..Len(s) : s[j] = ">"}
             IN  IF s[i] = "<" /\ i < Len(s) /\ s[i + 1] \in LowerLetters \cup UpperLetters
                    /\ closes # {}
                 THEN StripTags(s, SetMin(closes) + 1)
                 ELSE <<s[i]>> \o StripTags(s, i + 1))

stripHtml(html) == Eval(html, LAMBDA s : StripTags(s, 1))

\* s.replace(/d(.+?)d/g, '$1') for a delimiter d, from position i on: the shortest
\* non-empty content up to the next d is kept without its delimiters.
RECURSIVE ReplaceDelimited(_, _, _)
ReplaceDelimited(s, d, from) ==
    Eval(from, LAMBDA i :
        IF i > Len(s) THEN <<>>
        ELSE LET n == Len(d)
                 closes == {j \in (i + n + 1)..(Len(s) - n + 1) : SubSeq(s, j, j + n - 1) = d}
             IN  IF i + n - 1 <= Len(s) /\ SubSeq(s, i, i + n - 1) = d /\ closes # {}
                 THEN SubSeq(s, i + n, SetMin(closes) - 1)
                      \o ReplaceDelimited(s, d, SetMin(closes) + n)
                 ELSE <<s[i]>> \o ReplaceDelimited(s, d, i + 1))

\* s.replace(/^#+\s+/gm, '') on a text of one line.
StripHeading(s) ==
    LET k == LeadingRun(s, 1, {"#"})
        w == LeadingRun(s, k, Whitespace)
    IN  IF k > 1 /\ w > k THEN SubSeq(s, w, Len(s)) ELSE s

\* s.replace(/^\s*[-*+]\s+/gm, '') on a text of one line.
StripBullet(s) ==
    LET k == LeadingRun(s, 1, Whitespace)
        w == LeadingRun(s, k + 1, Whitespace)
    IN  IF k <= Len(s) /\ s[k] \in {"-", "*", "+"} /\ w > k + 1
        THEN SubSeq(s, w, Len(s)) ELSE s

\* The replacements in the order of the code; those for links, code and numbered
\* lists change no text without "[", "`" or a digit and are left out.
stripMarkdown(s) ==
    Eval(s, LAMBDA s0 :
    Eval(StripHeading(s0), LAMBDA s1 :
    Eval(ReplaceDelimited(s1, <<"*", "*">>, 1), LAMBDA s2 :
    Eval(ReplaceDelimited(s2, <<"_", "_">>, 1), LAMBDA s3 :
    Eval(ReplaceDelimited(s3, <<"*">>, 1), LAMBDA s4 :
    Eval(ReplaceDelimited(s4, <<"_">>, 1), LAMBDA s5 :
        StripBullet(s5)))))))

UnsupportedLanguageError(language) ==
    [threw |-> "UnsupportedLanguageError", language |-> language]

\* computeEqBenchScore(t) in an environment env = [readable, taggerWorks].
EqBenchOutcome(cache, env, f, t) ==
    Eval(normalizeText(t), LAMBDA tNorm :
    Eval(IF env.taggerWorks THEN tagSentence(tNorm) ELSE TaggerFailure, LAMBDA tagging :
    Eval(matchAll(tNorm, <<"only">>, STAGE1_REGEXES), LAMBDA found1 :
    Eval(matchAll(StreamOf(t, tagging), <<"POS_VERB">>, STAGE2_REGEXES), LAMBDA found2 :
    Eval(loadAssetsOutcome(cache, env.readable, f), LAMBDA loaded :
        computeEqBenchScoreOutcome(loaded, t, found1, tagging, found2))))))

\* A variant that strips Markdown before HTML.
computeScoreFromText_MarkdownFirst(t, language, cache, env, f, ms) ==
    IF language # "en"
    THEN [steps |-> <<>>, outcome |-> UnsupportedLanguageError(language)]
    ELSE
      Eval(stripMarkdown(t), LAMBDA md :
      Eval(stripHtml(md), LAMBDA plainText :
      Eval(EqBenchOutcome(cache, env, f, plainText), LAMBDA r :
          [ steps |-> << [op |-> "stripMarkdown", arg |-> t],
                         [op |-> "stripHtml", arg |-> md],
                         [op |-> "computeEqBenchScore", arg |-> plainText] >>,
            outcome |-> IF Threw(r) THEN r
                        ELSE [k \in DOMAIN r \cup {"computeMs"} |->
                                 IF k = "computeMs" THEN ms ELSE r[k]] ])))

\* SlopScoreService.computeScoreFromText(t, language): the calls it makes, in
\* order, and what its caller gets.  ms is the time Date.now() measured.
computeScoreFromText(t, language, cache, env, f, ms) ==
    IF language # "en"
    THEN [steps |-> <<>>, outcome |-> UnsupportedLanguageError(language)]
    ELSE
      Eval(stripHtml(t), LAMBDA html :
      Eval(stripMarkdown(html), LAMBDA plainText :
      Eval(EqBenchOutcome(cache, env, f, plainText), LAMBDA r :
          [ steps |-> << [op |-> "stripHtml", arg |-> t],
                         [op |-> "stripMarkdown", arg |-> html],
                         [op |-> "computeEqBenchScore", arg |-> plainText] >>,
            outcome |-> IF Threw(r) THEN r
                        ELSE [k \in DOMAIN r \cup {"computeMs"} |->
                                 IF k = "computeMs" THEN ms ELSE r[k]] ])))

\* scoreTextInputSchema.safeParse(raw).  A raw value is [type |-> ...], with the
\* characters as value when it is a string and the text property (of type
\* "undefined" when missing) when it is an object.  The message is that of the
\* first issue, without the received type the library appends.
safeParse(raw) ==
    IF raw.type # "object" THEN [success |-> FALSE, message |-> "Expected object"]
    ELSE IF raw.text.type = "undefined" THEN [success |-> FALSE, message |-> "Required"]
    ELSE IF raw.text.type # "string" THEN [success |-> FALSE, message |-> "Expected string"]
    ELSE IF Len(raw.text.value) < 1
    THEN [success |-> FALSE, message |-> "text must be non-empty"]
    ELSE [success |-> TRUE, data |-> [text |-> raw.text.value]]

\* x.toFixed(2): x to the nearest hundredth, halves away from zero.
toFixed2(x) ==
    IF ~IsFinite(x) THEN x
    ELSE Rat(Sign(x.n) * ((200 * Abs(x.n) + x.d) \div (2 * x.d)), 100)

\* The text of the tool's answer: the values the template interpolates.
ScoreText(r) ==
    [ slopScore |-> r.slopScore, wordCount |-> r.wordCount, charCount |-> r.charCount,
      wordsPer1k    |-> toFixed2(r.metrics.slop_list_matches_per_1k_words),
      trigramsPer1k |-> toFixed2(r.metrics.slop_trigram_matches_per_1k_words),
      contrastPer1k |-> toFixed2(r.metrics.not_x_but_y_per_1k_chars) ]

ToolError(message) ==
    [content |-> <<[type |-> "text", text |-> message]>>, isError |-> TRUE]

\* A variant that passes the parsed text on without the check after trim.
scoreTextToolHandler_NoTrimCheck(raw, cache, env, f, ms) ==
    Eval(safeParse(raw), LAMBDA parsed :
        IF ~parsed.success
        THEN [service |-> Null, outcome |-> ToolError(parsed.message)]
        ELSE
          Eval(trim(parsed.data.text), LAMBDA txt :
          Eval(computeScoreFromText(txt, "en", cache, env, f, ms), LAMBDA svc :
              [ service |-> [text |-> txt, language |-> "en", call |-> svc],
                outcome |-> IF Threw(svc.outcome) THEN svc.outcome
                            ELSE [ content |-> <<[type |-> "text", text |-> ScoreText(svc.outcome)]>>,
                                   isError |-> FALSE ] ])))

\* scoreTextToolHandler(raw): the call of the service it made (Null when none) and
\* what its caller gets: the tool result, or [threw |-> ...] when the promise is
\* rejected.
scoreTextToolHandler(raw, cache, env, f, ms) ==
    Eval(safeParse(raw), LAMBDA parsed :
        IF ~parsed.success
        THEN [service |-> Null, outcome |-> ToolError(parsed.message)]
        ELSE
          Eval(trim(parsed.data.text), LAMBDA txt :
            IF txt = <<>>
            THEN [service |-> Null, outcome |-> ToolError("text must be non-empty")]
            ELSE
              Eval(computeScoreFromText(txt, "en", cache, env, f, ms), LAMBDA svc :
                  [ service |-> [text |-> txt, language |-> "en", call |-> svc],
                    outcome |-> IF Threw(svc.outcome) THEN svc.outcome
                                ELSE [ content |-> <<[type |-> "text", text |-> ScoreText(svc.outcome)]>>,
                                       isError |-> FALSE ] ])))

(***************************************************************************)
(* Specification of the service and the tool: one call of                  *)
(* computeScoreFromText or of scoreTextToolHandler in a fresh process.     *)
(* `text` is the text passed, `calls` the environment of the call          *)
(* (whether the asset files can be read, whether the tagger works), and    *)
(* `locals` what the call was given and which calls it made.               *)
(***************************************************************************)
MarkupTexts ==
    { <<"<", "a", ">">>, <<"<", "a", ">", "a">>, <<"*", "a", "*">>, <<"*", "*", "a", "*", "*">>,
      <<"*", "<", "a", ">", "*">>, <<"*", " ", "a">>, <<"#", " ", "a">>, <<"_", "a", "_">> }

ToolTexts == Strings({"a", " ", "*"}, MaxToolTextLen) \cup MarkupTexts

Languages == {"en", "fr", "EN", ""}

ComputeTimes == {0, 1}

RawInputs(t) ==
    { [type |-> "undefined"],
      [type |-> "string", value |-> t],
      [type |-> "object", text |-> [type |-> "undefined"]],
      [type |-> "object", text |-> [type |-> "number"]],
      [type |-> "object", text |-> [type |-> "string", value |-> t]] }

InitTool ==
    /\ files \in PipelineFiles
    /\ loadedAssets = Null
    /\ text \in ToolTexts
    /\ locals = Null
    /\ result = Null
    /\ calls \in [readable : BOOLEAN, taggerWorks : BOOLEAN]
    /\ loads = NoLoads

\* The cache and the load counters after a call that made the given service call.
CacheAfter(svc) ==
    IF svc.steps = <<>> \/ ~calls.readable THEN loadedAssets ELSE BuildAssets(files)

LoadsAfter(svc) ==
    IF svc.steps = <<>> THEN loads
    ELSE [reads |-> loads.reads + 1, builds |-> loads.builds + (IF calls.readable THEN 1 ELSE 0)]

\* slopScoreService.computeScoreFromText(text, language)
ServiceCall(language, ms) ==
    \E svc \in {computeScoreFromText(text, language, loadedAssets, calls, files, ms)} :
        /\ locals' = [op |-> "computeScoreFromText", language |-> language, call |-> svc]
        /\ result' = svc.outcome
        /\ loadedAssets' = CacheAfter(svc)
        /\ loads' = LoadsAfter(svc)
        /\ UNCHANGED <<files, text, calls>>

\* scoreTextToolHandler(raw)
ToolCall(raw, ms) ==
    \E h \in {scoreTextToolHandler(raw, loadedAssets, calls, files, ms)} :
        /\ locals' = [op |-> "scoreTextToolHandler", raw |-> raw, service |-> h.service]
        /\ result' = h.outcome
        /\ loadedAssets' = IF h.service = Null THEN loadedAssets ELSE CacheAfter(h.service.call)
        /\ loads' = IF h.service = Null THEN loads ELSE LoadsAfter(h.service.call)
        /\ UNCHANGED <<files, text, calls>>

\* One call per behaviour.
NextTool ==
    /\ result = Null
    /\ \E ms \in ComputeTimes :
          \/ \E language \in Languages : ServiceCall(language, ms)
          \/ \E raw \in RawInputs(text) : ToolCall(raw, ms)

SpecTool == InitTool /\ [][NextTool]_vars

(***************************************************************************)
(* Command-line helpers (cliHelpers.ts).  A command-line argument is an   *)
(* atomic string here: the code only compares arguments for equality.     *)
(***************************************************************************)
includes(args, x) == \E i \in 1..Len(args) : args[i] = x

\* A variant that looks for the help flag in the first argument only.
getCliInput_HelpFirstOnly(args) ==
    IF Len(args) > 0 /\ args[1] \in {"--help", "-h"} THEN [mode |-> "help"]
    ELSE IF Len(args) = 0 THEN [mode |-> "missing"]
    ELSE IF args[1] = "-" THEN [mode |-> "stdin"]
    ELSE [mode |-> "file", filePath |-> args[1]]

getCliInput(args) ==
    IF includes(args, "--help") \/ includes(args, "-h") THEN [mode |-> "help"]
    ELSE IF Len(args) = 0 THEN [mode |-> "missing"]
    ELSE IF args[1] = "-" THEN [mode |-> "stdin"]
    ELSE [mode |-> "file", filePath |-> args[1]]

\* A variant whose second band ends at 40 inclusive.
getInterpretation_InclusiveForty(slopScore) ==
    IF FLt(slopScore, Num(20)) THEN "Interpretation: Very human-like, natural writing"
    ELSE IF FLe(slopScore, Num(40)) THEN "Interpretation: Mostly human with some AI characteristics"
    ELSE IF FLt(slopScore, Num(60)) THEN "Interpretation: Mixed characteristics, unclear origin"
    ELSE IF FLt(slopScore, Num(80)) THEN "Interpretation: Likely AI-generated with some editing"
    ELSE "Interpretation: Strong AI signature, minimal human intervention"

getInterpretation(slopScore) ==
    IF FLt(slopScore, Num(20)) THEN "Interpretation: Very human-like, natural writing"
    ELSE IF FLt(slopScore, Num(40)) THEN "Interpretation: Mostly human with some AI characteristics"
    ELSE IF FLt(slopScore, Num(60)) THEN "Interpretation: Mixed characteristics, unclear origin"
    ELSE IF FLt(slopScore, Num(80)) THEN "Interpretation: Likely AI-generated with some editing"
    ELSE "Interpretation: Strong AI signature, minimal human intervention"

(***************************************************************************)
(* Specification of the command-line helpers: one call of getCliInput or  *)
(* of getInterpretation.  `text` holds the argument of the call.           *)
(***************************************************************************)
CliArgs == {"--help", "-h", "-", "", "input.md", "file.txt"}

ArgLists == UNION {[1..n -> CliArgs] : n \in 0..MaxArgs}

\* Scores with one decimal, below 0 and above 100 included, the infinities and NaN.
CliScores == {Rat(k, 10) : k \in (-10)..MaxScoreTenths} \cup {PosInf, NegInf, NaN}

InitCli ==
    /\ files = Null
    /\ loadedAssets = Null
    /\ text = Null
    /\ locals = Null
    /\ result = Null
    /\ calls = <<>>
    /\ loads = NoLoads

ParseArgs(args) ==
    /\ text' = [args |-> args]
    /\ result' = [input |-> getCliInput(args)]
    /\ UNCHANGED <<files, loadedAssets, locals, calls, loads>>

Interpret(score) ==
    /\ text' = [slopScore |-> score]
    /\ result' = [interpretation |-> getInterpretation(score)]
    /\ UNCHANGED <<files, loadedAssets, locals, calls, loads>>

\* One call per behaviour.
NextCli ==
    /\ result = Null
    /\ \/ \E args \in ArgLists : ParseArgs(args)
       \/ \E score \in CliScores : Interpret(score)

SpecCli == InitCli /\ [][NextCli]_vars

(***************************************************************************)
(* Properties of the command-line helpers, checked under SpecCli.          *)
(***************************************************************************)
Interpreted == result # Null /\ "interpretation" \in DOMAIN result

Parsed == result # Null /\ "input" \in DOMAIN result

\* The bands of the README, as conditions on a score.
Bands(x) ==
    << FLt(x, Num(20)),
       FLe(Num(20), x) /\ FLt(x, Num(40)),
       FLe(Num(40), x) /\ FLt(x, Num(60)),
       FLe(Num(60), x) /\ FLt(x, Num(80)),
       FLe(Num(80), x) >>

BandLabels ==
    << "Interpretation: Very human-like, natural writing",
       "Interpretation: Mostly human with some AI characteristics",
       "Interpretation: Mixed characteristics, unclear origin",
       "Interpretation: Likely AI-generated with some editing",
       "Interpretation: Strong AI signature, minimal human intervention" >>

\* C19: every score that is a number falls in exactly one of the five bands
\* (< 20, [20, 40), [40, 60), [60, 80), >= 80) and getInterpretation returns the
\* label of that band.
C19_InterpretationBands ==
    (Interpreted /\ ~IsNaN(text.slopScore)) =>
        /\ Cardinality({b \in 1..5 : Bands(text.slopScore)[b]}) = 1
        /\ \A b \in 1..5 : Bands(text.slopScore)[b] => result.interpretation = BandLabels[b]

\* The score 40 has been interpreted: a threshold, which opens the third band.
C19_Witness ==
    /\ Interpreted
    /\ text.slopScore = Num(40)
    /\ result.interpretation = BandLabels[3]

\* C20: 'help' if --help or -h occurs anywhere, otherwise 'missing' for the empty
\* list, otherwise 'stdin' if the first argument is '-', otherwise 'file' with the
\* first argument as filePath.
C20_CliInputPrecedence ==
    Parsed =>
        LET args == text.args
            help == \E i \in 1..Len(args) : args[i] \in {"--help", "-h"}
        IN  /\ help => result.input = [mode |-> "help"]
            /\ (~help /\ Len(args) = 0) => result.input = [mode |-> "missing"]
            /\ (~help /\ Len(args) > 0 /\ args[1] = "-") => result.input = [mode |-> "stdin"]
            /\ (~help /\ Len(args) > 0 /\ args[1] # "-")
                   => result.input = [mode |-> "file", filePath |-> args[1]]

\* A help flag after '-' and a file name has been classified as help.
C20_Witness ==
    /\ Parsed
    /\ Len(text.args) = 3
    /\ text.args[1] = "-" /\ text.args[2] = "input.md" /\ text.args[3] = "-h"
    /\ result.input.mode = "help"

(***************************************************************************)
(* Properties of the whole pipeline, checked under SpecPipeline.           *)
(***************************************************************************)
Called == result # Null

\* C13: when the tagger fails, the scoring call fails with the tagger's error: no
\* score is returned, in particular none computed from Stage 1 candidates alone.
C13_TaggerFailurePropagates ==
    (Called /\ Threw(locals.tagging)) =>
        /\ result = locals.tagging
        /\ locals.contrast = locals.tagging
        /\ "slopScore" \notin DOMAIN result

\* The tagger failed on a text in which the Stage 1 table had found a candidate.
C13_Witness ==
    /\ Called
    /\ Threw(locals.tagging)
    /\ collectStage1Candidates(normalizeText(text), sentenceSpans(normalizeText(text)),
                               locals.found1, <<"S1_">>) # <<>>
    /\ Threw(result)

\* C14: with the assets loaded and the tagger answering, the call returns a result
\* for every text; it never throws.
C14_NeverRaises ==
    (Called /\ loadedAssets # Null /\ ~Threw(locals.tagging)) =>
        /\ ~Threw(result)
        /\ "slopScore" \in DOMAIN result

\* A call returned although the tagger's second token could not be re-located and
\* the Stage 2 table matched the space inferred before it, which has no raw extent.
C14_Witness ==
    /\ Called
    /\ ~Threw(locals.tagging)
    /\ ~Threw(result)
    /\ Len(locals.tagging.tagged) = 2
    /\ indexOf(normalizeText(text), locals.tagging.tagged[2].value, 0) = -1
    /\ Len(locals.extract.pieces) = 2
    /\ locals.extract.pieces[2][3] = locals.extract.pieces[2][4]
    /\ locals.found2 # <<>>
    /\ locals.found2[1].index = locals.extract.pieces[2][1]
    /\ locals.found2[1].length = 1

\* C15: for a text that is empty or yields no sentence span, the detector returns
\* no match and scoreContrast returns 0 hits and the rate 0, without throwing.
C15_EmptyTextNoContrast ==
    (Called /\ ~Threw(locals.tagging)
       /\ (text = <<>> \/ sentenceSpans(normalizeText(text)) = <<>>)) =>
        /\ ~Threw(locals.extract) /\ locals.extract.matches = <<>>
        /\ ~Threw(locals.contrast)
        /\ locals.contrast.hits = 0
        /\ locals.contrast.rate_per_1k = Num(0)
        /\ locals.contrast.matches = <<>>

\* The empty text, on which both tables matched the empty string and for which the
\* tagger returned tokens.
C15_Witness ==
    /\ Called
    /\ text = <<>>
    /\ ~Threw(locals.tagging) /\ locals.tagging.tagged # <<>>
    /\ locals.found1 # <<>> /\ locals.found2 # <<>>
    /\ ~Threw(result)

(***************************************************************************)
(* Properties of repeated calls, checked under SpecRepeat.                 *)
(***************************************************************************)
\* C11: two calls of computeEqBenchScore on the same text that ran with the same
\* asset object return the same result, whatever calls were made before or between
\* them.
C11_Deterministic ==
    \A i, j \in DOMAIN calls :
        calls[i].assets = calls[j].assets => calls[i].outcome = calls[j].outcome

\* Two calls on the text returned, with a call on another text or a failed call
\* between them, and the text has a contrast match.
C11_Witness ==
    \E i, j \in DOMAIN calls :
        /\ calls[j].at >= calls[i].at + 2
        /\ calls[i].assets = calls[j].assets
        /\ calls[i].outcome.details.contrastMatches # <<>>

LoadAttempted == locals.lastCall # Null /\ locals.lastCall.cacheBefore = Null

\* C12: a call that finds no cached assets reads the files once; when the read fails
\* the call throws the load error, gives no result and leaves the cache unset; when
\* the files are readable, also after earlier failures, the load is done and cached.
C12_LoadFailure ==
    LoadAttempted =>
        /\ loads.reads = locals.lastCall.readsBefore + 1
        /\ ~locals.lastCall.readable =>
              /\ result = AssetsUnavailable
              /\ loadedAssets = Null
        /\ locals.lastCall.readable =>
              /\ result # AssetsUnavailable
              /\ loadedAssets = BuildAssets(files)

\* A call failed on unreadable files and a later call loaded the assets and scored.
C12_Witness ==
    /\ LoadAttempted
    /\ locals.failed >= 1
    /\ locals.lastCall.readable
    /\ loadedAssets # Null
    /\ ~Threw(result)

(***************************************************************************)
(* Properties of the service and the tool, checked under SpecTool.         *)
(***************************************************************************)
ServiceCalled == locals # Null /\ locals.op = "computeScoreFromText"

ToolCalled == locals # Null /\ locals.op = "scoreTextToolHandler"

\* C16: computeScoreFromText rejects with UnsupportedLanguageError for every
\* language other than "en" without having stripped, loaded or scored anything;
\* for "en" it calls stripHtml on the text, stripMarkdown on what that gave and
\* computeEqBenchScore on what that gave, in this order: of *<a>* the text ** is
\* scored.
C16_LanguageGate ==
    ServiceCalled =>
        /\ locals.language # "en" =>
              /\ Threw(result)
              /\ result.threw = "UnsupportedLanguageError"
              /\ locals.call.steps = <<>>
              /\ loadedAssets = Null
              /\ loads = NoLoads
        /\ locals.language = "en" =>
              /\ [k \in 1..Len(locals.call.steps) |-> locals.call.steps[k].op]
                    = <<"stripHtml", "stripMarkdown", "computeEqBenchScore">>
              /\ locals.call.steps[1].arg = text
              /\ locals.call.steps[2].arg = stripHtml(text)
              /\ locals.call.steps[3].arg = stripMarkdown(stripHtml(text))
              /\ text = <<"*", "<", "a", ">", "*">> => locals.call.steps[3].arg = <<"*", "*">>
              /\ text = <<"*", "a", "*">> => locals.call.steps[3].arg = <<"a">>
              /\ Threw(result) => result.threw # "UnsupportedLanguageError"

\* A text with markup is rejected for its language although the asset files are
\* readable and the tagger works.
C16_Witness ==
    /\ ServiceCalled
    /\ locals.language = "fr"
    /\ text = <<"*", "<", "a", ">", "*">>
    /\ calls.readable /\ calls.taggerWorks
    /\ Threw(result)

\* The input is an object whose text is a string with a character other than white
\* space.
ValidText(raw) ==
    /\ raw.type = "object"
    /\ raw.text.type = "string"
    /\ trim(raw.text.value) # <<>>

\* C17: for an input that is not an object with a string text, or whose text is
\* empty or all white space, scoreTextToolHandler returns isError = true and never
\* calls the service; for any other input it calls the service and, when that
\* returns, gives isError = false with exactly one content item, of type "text".
C17_InputValidation ==
    ToolCalled =>
        /\ ~ValidText(locals.raw) =>
              /\ ~Threw(result)
              /\ result.isError = TRUE
              /\ locals.service = Null
              /\ loads = NoLoads
        /\ ValidText(locals.raw) =>
              /\ locals.service # Null
              /\ ~Threw(locals.service.call.outcome) =>
                    /\ ~Threw(result)
                    /\ result.isError = FALSE
                    /\ Len(result.content) = 1
                    /\ result.content[1].type = "text"

\* A text of white space only is refused.
C17_Witness ==
    /\ ToolCalled
    /\ locals.raw.type = "object"
    /\ locals.raw.text.type = "string"
    /\ locals.raw.text.value # <<>>
    /\ trim(locals.raw.text.value) = <<>>
    /\ ~Threw(result)
    /\ result.isError = TRUE

\* C18: when the service fails at run time (asset load or tagger failure),
\* scoreTextToolHandler returns a tool result with isError = true instead of
\* throwing.
C18_RuntimeFailureIsToolError ==
    (ToolCalled /\ locals.service # Null /\ Threw(locals.service.call.outcome)) =>
        /\ ~Threw(result)
        /\ result.isError = TRUE

(***************************************************************************)
(* Specification of the range helpers: one call of coveredSentenceRange    *)
(* or of mapStreamToRaw.  `text` is a list of intervals in ascending       *)
(* order, with or without gaps: the sentence spans, or the stream          *)
(* intervals of the pieces.  `locals` holds the arguments of the call.     *)
(***************************************************************************)
RECURSIVE IntervalListsFrom(_, _)
IntervalListsFrom(from, n) ==
    IF n = 0 THEN {<<>>}
    ELSE {<<>>} \cup UNION { UNION { { <<<<a, b>>>> \o rest : rest \in IntervalListsFrom(b, n - 1) }
                                    : b \in a..MaxCoord }
                            : a \in from..MaxCoord }

IntervalLists == IntervalListsFrom(0, MaxIntervals)

Offsets == 0..(MaxCoord + 1)

\* The raw ranges a piece may carry.
RawChoices == {<<0, 2>>, <<1, 3>>}

InitRanges ==
    /\ files = Null
    /\ loadedAssets = Null
    /\ text \in IntervalLists
    /\ locals = Null
    /\ result = Null
    /\ calls = <<>>
    /\ loads = NoLoads

\* coveredSentenceRange(spans, start, end) with spans = text
CoveredRange(start, end) ==
    /\ locals' = [op |-> "coveredSentenceRange", start |-> start, end |-> end]
    /\ result' = [range |-> coveredSentenceRange(text, start, end)]
    /\ UNCHANGED <<files, loadedAssets, text, calls, loads>>

\* mapStreamToRaw(pieces, streamStart, streamEnd) with the stream intervals of text
MapStream(raws, streamStart, streamEnd) ==
    \E pieces \in {[k \in 1..Len(text) |-> <<text[k][1], text[k][2], raws[k][1], raws[k][2]>>]} :
        /\ locals' = [ op |-> "mapStreamToRaw", pieces |-> pieces,
                       start |-> streamStart, end |-> streamEnd ]
        /\ result' = [mapRes |-> mapStreamToRaw(pieces, streamStart, streamEnd)]
        /\ UNCHANGED <<files, loadedAssets, text, calls, loads>>

\* One call per behaviour.
NextRanges ==
    /\ result = Null
    /\ \E start \in Offsets : \E end \in Offsets :
          \/ CoveredRange(start, end)
          \/ /\ start <= end
             /\ \E raws \in [1..Len(text) -> RawChoices] : MapStream(raws, start, end)

SpecRanges == InitRanges /\ [][NextRanges]_vars

(***************************************************************************)
(* Properties of the range helpers, checked under SpecRanges.              *)
(***************************************************************************)
RangeCalled == locals # Null /\ locals.op = "coveredSentenceRange"

MapCalled == locals # Null /\ locals.op = "mapStreamToRaw"

\* The 0-based indexes of the spans whose end exceeds x, and whose start is below x.
EndsAfter(spans, x) == {k \in 0..(Len(spans) - 1) : spans[k + 1][2] > x}

StartsBefore(spans, x) == {k \in 0..(Len(spans) - 1) : spans[k + 1][1] < x}

\* C21: for spans in ascending order coveredSentenceRange gives the first span whose
\* end exceeds start and the last span whose start is below end; it gives null when
\* there is no span, when start >= end, and when no such pair lo <= hi exists.
C21_CoveredRange ==
    RangeCalled =>
        LET los == EndsAfter(text, locals.start)
            his == StartsBefore(text, locals.end)
        IN  IF text = <<>> \/ locals.start >= locals.end \/ los = {} \/ his = {}
            THEN result.range = Null
            ELSE IF SetMin(los) > SetMax(his)
            THEN result.range = Null
            ELSE result.range = [lo |-> SetMin(los), hi |-> SetMax(his)]

\* A match that starts where one span ends and reaches over a gap into a later span.
C21_Witness ==
    /\ RangeCalled
    /\ result.range # Null
    /\ result.range.lo < result.range.hi
    /\ \E k \in 1..Len(text) : text[k][2] = locals.start
    /\ \E k \in 1..(Len(text) - 1) : text[k][2] < text[k + 1][1]

\* The 1-based indexes of the pieces whose stream interval overlaps [s, e).
Overlapping(pieces, s, e) == {k \in 1..Len(pieces) : pieces[k][2] > s /\ pieces[k][1] < e}

\* C22: for pieces in ascending stream order mapStreamToRaw gives the least raw
\* start and the greatest raw end of exactly the pieces with streamEnd > s and
\* streamStart < e, and null when there is no such piece.
C22_MapStreamToRaw ==
    MapCalled =>
        LET over == Overlapping(locals.pieces, locals.start, locals.end)
        IN  IF over = {} THEN result.mapRes = Null
            ELSE result.mapRes = [ rawS |-> SetMin({locals.pieces[k][3] : k \in over}),
                                   rawE |-> SetMax({locals.pieces[k][4] : k \in over}) ]

\* Two or more of three pieces overlap the range, and the raw offsets do not ascend.
C22_Witness ==
    /\ MapCalled
    /\ Len(locals.pieces) = 3
    /\ Cardinality(Overlapping(locals.pieces, locals.start, locals.end)) = 2
    /\ \E k \in 1..2 : locals.pieces[k][3] > locals.pieces[k + 1][3]
    /\ result.mapRes # Null

(***************************************************************************)
(* Specification of Stage 2: the tagged stream of one text is built and    *)
(* searched by two patterns of the table, in table order.  The tagger's    *)
(* answer and the matches are inputs: the first pattern matches anywhere   *)
(* in the stream or not at all, the second matches the whole stream or not *)
(* at all.  `locals` holds what the stage computed.                        *)
(***************************************************************************)
Stage2Texts == Strings({"a", " "}, MaxStage2TextLen)

Stage2Tagged == {<<>>} \cup {<<t>> : t \in TagTokens} \cup {<<t, u>> : t \in TagTokens, u \in TagTokens}

WholeStreamMatch(pname, n) ==
    {<<>>} \cup {<<[pname |-> pname, index |-> 0, length |-> n]>> : x \in {n} \ {0}}

InitStage2 ==
    /\ files = Null
    /\ loadedAssets = Null
    /\ text \in Stage2Texts
    /\ locals = Null
    /\ result = Null
    /\ calls = <<>>
    /\ loads = NoLoads

\* const { stream, pieces } = tagStreamWithOffsets(tNorm, 'verb');
\* collectStage2Candidates(tNorm, spans, STAGE2_REGEXES, stream, pieces, 'S2_')
Stage2(tagged, firstFound, secondFound) ==
    \E tNorm \in {normalizeText(text)} :
    \E spans \in {sentenceSpans(tNorm)} :
    \E tg \in {tagStreamWithOffsets(tNorm, tagged, "verb")} :
    \E located \in {LocateStage2(tg.pieces, firstFound \o secondFound)} :
        /\ locals' = [ tagged |-> tagged, tNorm |-> tNorm, spans |-> spans,
                       stream |-> tg.stream, pieces |-> tg.pieces,
                       found2 |-> firstFound \o secondFound, located |-> located ]
        /\ result' = [candidates |-> collectStage2Candidates(tNorm, spans, located, <<"S2_">>)]
        /\ UNCHANGED <<files, loadedAssets, text, calls, loads>>

\* One pass per behaviour.
NextStage2 ==
    /\ result = Null
    /\ \E tagged \in Stage2Tagged :
       \E n \in {Len(tagStreamWithOffsets(normalizeText(text), tagged, "verb").stream)} :
       \E firstFound \in SingleMatches(<<"POS_DOESNT_VERB">>, n) :
       \E secondFound \in WholeStreamMatch(<<"POS_DONT_JUST_VERB">>, n) :
           Stage2(tagged, firstFound, secondFound)

SpecStage2 == InitStage2 /\ [][NextStage2]_vars

(***************************************************************************)
(* Properties of Stage 2, checked under SpecStage2.                        *)
(***************************************************************************)
Stage2Done == locals # Null

\* The start of the match lies in no piece, or its end lies in no piece.
BoundaryOutside(pieces, m) ==
    \/ ~\E k \in 1..Len(pieces) : pieces[k][1] <= m.index /\ m.index < pieces[k][2]
    \/ ~\E k \in 1..Len(pieces) :
            pieces[k][1] < m.index + m.length /\ m.index + m.length <= pieces[k][2]

\* What one match contributes on its own: nothing when a boundary is outside every
\* piece, else the candidate of its raw range if that covers a sentence.
OwnCandidate(m) ==
    IF BoundaryOutside(locals.pieces, m) THEN Null
    ELSE LET mapRes == mapStreamToRaw(locals.pieces, m.index, m.index + m.length)
         IN  IF mapRes = Null THEN Null
             ELSE Candidate(locals.tNorm, locals.spans, <<"S2_">> \o m.pname,
                            mapRes.rawS, mapRes.rawE)

\* C23: a stream match with a boundary outside every piece gives no candidate, and
\* the pass goes on: the candidates are those of the other matches, in order.
C23_UnmappableDiscarded ==
    Stage2Done =>
        result.candidates =
            SelectSeq([k \in 1..Len(locals.found2) |-> OwnCandidate(locals.found2[k])],
                      LAMBDA c : c # Null)

\* The first match cannot be mapped, the second, of the next pattern, gives the only
\* candidate.
C23_Witness ==
    /\ Stage2Done
    /\ Len(locals.found2) = 2
    /\ BoundaryOutside(locals.pieces, locals.found2[1])
    /\ Len(result.candidates) = 1
    /\ result.candidates[1].pattern_name = <<"S2_", "POS_DONT_JUST_VERB">>

(***************************************************************************)
(* Properties of mergeIntervals, checked under SpecContrast on the         *)
(* candidates the two stages collected.                                    *)
(***************************************************************************)
\* a comes before b in the order (lo, hi, raw_start).
KeyLess(a, b) ==
    \/ a.lo < b.lo
    \/ a.lo = b.lo /\ a.hi < b.hi
    \/ a.lo = b.lo /\ a.hi = b.hi /\ a.raw_start < b.raw_start

\* The place of candidate i in the ascending order, ties kept in the order given.
Rank(c, i) ==
    Cardinality({j \in 1..Len(c) : KeyLess(c[j], c[i]) \/ (~KeyLess(c[i], c[j]) /\ j < i)}) + 1

Ascending(c) == [r \in 1..Len(c) |-> c[CHOOSE i \in 1..Len(c) : Rank(c, i) = r]]

\* The seeds: the intervals that start after every earlier interval has ended.
Seeds(srt) == {i \in 1..Len(srt) : \A j \in 1..(i - 1) : srt[i].lo > srt[j].hi}

\* The group of seed s: from s up to the next seed.
Group(srt, s) == {i \in s..Len(srt) : \A t \in Seeds(srt) : t <= s \/ t > i}

\* C24: mergeIntervals goes through the intervals in ascending order of
\* (lo, hi, raw_start) and folds an interval into the current one when its lo is
\* at most the current hi: there is one merged interval per group, with the hi and
\* raw_end that are the maxima over the group and with the lo, raw_start,
\* pattern_name and match_text of the group's first interval.
C24_MergeFold ==
    result # Null =>
        LET srt   == Ascending(locals.candidates)
            seeds == Seeds(srt)
            m     == locals.merged
        IN  /\ Len(m) = Cardinality(seeds)
            /\ \A s \in seeds :
                   LET k == Cardinality({t \in seeds : t <= s})
                       g == Group(srt, s)
                   IN  /\ m[k].lo = srt[s].lo
                       /\ m[k].raw_start = srt[s].raw_start
                       /\ m[k].pattern_name = srt[s].pattern_name
                       /\ m[k].match_text = srt[s].match_text
                       /\ m[k].hi = SetMax({srt[i].hi : i \in g})
                       /\ m[k].raw_end = SetMax({srt[i].raw_end : i \in g})

\* Candidates given out of order; one group folds a candidate of another name that
\* ends later than its seed, in sentence and in offset.
C24_Witness ==
    /\ result # Null
    /\ \E k \in 1..(Len(locals.candidates) - 1) :
           KeyLess(locals.candidates[k + 1], locals.candidates[k])
    /\ LET srt == Ascending(locals.candidates)
       IN  \E s \in Seeds(srt) : \E i \in Group(srt, s) :
               /\ srt[i].pattern_name # srt[s].pattern_name
               /\ srt[i].hi > srt[s].hi
               /\ srt[i].raw_end > srt[s].raw_end

Ranges(m) == [k \in 1..Len(m) |-> <<m[k].lo, m[k].hi>>]

\* C25: in whatever order the candidates are handed to mergeIntervals, the number
\* of merged intervals and their sentence ranges are the same.
C25_OrderIndependent ==
    result # Null =>
        \A p \in Permutations(1..Len(locals.candidates)) :
            Ranges(mergeIntervals([k \in 1..Len(locals.candidates) |-> locals.candidates[p[k]]]))
                = Ranges(locals.merged)

\* Three or more candidates whose ranges differ, two or more merged intervals, one
\* of them folded from several candidates.
C25_Witness ==
    /\ result # Null
    /\ Len(locals.candidates) >= 3
    /\ Cardinality({<<locals.candidates[k].lo, locals.candidates[k].hi>>
                       : k \in 1..Len(locals.candidates)}) >= 3
    /\ Len(locals.merged) >= 2
    /\ Len(locals.merged) < Len(locals.candidates)

(***************************************************************************)
(* Properties of the returned matches, checked under SpecPipeline.         *)
(***************************************************************************)
\* s from offset a to offset b without the whitespace at either end.
TrimmedBlock(s, a, b) ==
    LET inked == {i \in (a + 1)..b : s[i] \notin Whitespace}
    IN  IF inked = {} THEN <<>> ELSE SubSeq(s, SetMin(inked), SetMax(inked))

\* C26: the sentence of a returned match is the normalized text from the start of
\* the first sentence of its merged interval to the end of the last, trimmed of
\* whitespace at both ends, and its sentence_count is hi - lo + 1.
C26_SentenceBlock ==
    (locals # Null /\ ~Threw(locals.extract)) =>
        LET tNorm  == normalizeText(text)
            spans  == sentenceSpans(tNorm)
            merged == mergeIntervals(locals.extract.candidates)
            m      == locals.extract.matches
        IN  /\ Len(m) = Len(merged)
            /\ \A k \in 1..Len(m) :
                   /\ m[k].sentence = TrimmedBlock(tNorm, spans[merged[k].lo + 1][1],
                                                   spans[merged[k].hi + 1][2])
                   /\ m[k].sentence_count = merged[k].hi - merged[k].lo + 1

\* A match of two sentences whose block has whitespace at an end.
C26_Witness ==
    /\ locals # Null
    /\ ~Threw(locals.extract)
    /\ \E k \in 1..Len(locals.extract.matches) :
           /\ locals.extract.matches[k].sentence_count = 2
           /\ Len(locals.extract.matches[k].sentence) = 1
           /\ Len(text) = 2

(***************************************************************************)
(* Specification of the tagged stream alone: tagStreamWithOffsets on one   *)
(* normalized text, as extractContrastMatches calls it.  What the tagger   *)
(* returned is an input: tokens of every class and of none, some of which  *)
(* occur nowhere in the text.                                              *)
(***************************************************************************)
TagTexts == Strings({"a", " "}, MaxTagTextLen)

ClassTokens ==
    {[value |-> v, pos |-> p] : v \in {<<"a">>, <<"b">>}, p \in {"VB", "NN", "JJ", "RB", ""}}

TaggerOutputs == UNION {[1..n -> ClassTokens] : n \in 0..MaxTagTokens}

InitTag ==
    /\ files = Null
    /\ loadedAssets = Null
    /\ text \in TagTexts
    /\ locals = Null
    /\ result = Null
    /\ calls = <<>>
    /\ loads = NoLoads

\* const { stream, pieces } = tagStreamWithOffsets(tNorm, 'verb');
TagStream(tagged) ==
    \E tNorm \in {normalizeText(text)} :
        /\ locals' = [tNorm |-> tNorm, tagged |-> tagged]
        /\ result' = tagStreamWithOffsets(tNorm, tagged, "verb")
        /\ UNCHANGED <<files, loadedAssets, text, calls, loads>>

\* One call per behaviour.
NextTag ==
    /\ result = Null
    /\ \E tagged \in TaggerOutputs : TagStream(tagged)

SpecTag == InitTag /\ [][NextTag]_vars

(***************************************************************************)
(* Properties of the tagged stream, checked under SpecTag.                 *)
(***************************************************************************)
Tagged == result # Null

\* Pieces in ascending order, in the stream and in the text, none overlapping
\* another in either.
PiecesOrdered(p) ==
    /\ \A k \in 1..(Len(p) - 1) : p[k][1] <= p[k + 1][1] /\ p[k][3] <= p[k + 1][3]
    /\ \A k \in 1..Len(p) : p[k][1] <= p[k][2] /\ p[k][3] <= p[k][4]
    /\ \A j, k \in 1..Len(p) : j < k => (p[j][2] <= p[k][1] /\ p[j][4] <= p[k][3])

\* Every character of the text lies in the raw range of a piece.
PiecesCover(p, tNorm) ==
    \A c \in 0..(Len(tNorm) - 1) : \E k \in 1..Len(p) : p[k][3] <= c /\ c < p[k][4]

\* The order and disjointness of the pieces, on its own.
PiecesOrderedAlways == Tagged => PiecesOrdered(result.pieces)

\* C27: for any text and any tagger output the pieces are in ascending order in
\* stream and raw position, never overlap in stream space or in raw space, and
\* together cover every character of the normalized text.
C27_PiecesCoverText ==
    Tagged => (PiecesOrdered(result.pieces) /\ PiecesCover(result.pieces, locals.tNorm))

\* The tagger returned the tokens of the text, in order: each can be found after
\* the one before.
InTextOrder(tNorm, tagged) ==
    \E at \in [1..Len(tagged) -> 0..Len(tNorm)] :
        /\ \A i \in 1..Len(tagged) :
               /\ at[i] + Len(tagged[i].value) <= Len(tNorm)
               /\ substring(tNorm, at[i], at[i] + Len(tagged[i].value)) = tagged[i].value
        /\ \A i \in 1..(Len(tagged) - 1) : at[i] + Len(tagged[i].value) <= at[i + 1]

\* What piece k stands for in the text, and what it put into the stream.
RawOf(k) == substring(locals.tNorm, result.pieces[k][3], result.pieces[k][4])

OutOf(k) == substring(result.stream, result.pieces[k][1], result.pieces[k][2])

VerbPlaceholder == <<"V", "E", "R", "B">>

\* The placeholder of the token's class, if it has one, else the token.
ClassPlaceholder(token) ==
    IF token.pos \in VERB_TAGS THEN VerbPlaceholder
    ELSE IF token.pos \in NOUN_TAGS THEN <<"N", "O", "U", "N">>
    ELSE IF token.pos \in ADJ_TAGS THEN <<"A", "D", "J">>
    ELSE IF token.pos \in ADV_TAGS THEN <<"A", "D", "V">>
    ELSE token.value

\* The pieces lie end to end in the stream, from 0 to its length.
StreamTiled ==
    LET p == result.pieces
    IN  /\ p = <<>> => result.stream = <<>>
        /\ p # <<>> => (p[1][1] = 0 /\ p[Len(p)][2] = Len(result.stream))
        /\ \A k \in 1..(Len(p) - 1) : p[k][2] = p[k + 1][1]

\* C28 (as amended): the stream used by Stage 2 is made of the text of the tokens
\* found and of the text between them; only a token of the verb class is replaced,
\* by VERB; a token of the noun, adjective or adverb class or of no class is
\* emitted unchanged; where nothing lies between two tokens one space is put in.
C28_StreamVerbOnly ==
    Tagged =>
        LET p == result.pieces
            tg == locals.tagged
            n == Len(tg)
        IN  /\ StreamTiled
            /\ \A k \in 1..Len(p) :
                   \/ OutOf(k) = RawOf(k)
                   \/ /\ OutOf(k) = VerbPlaceholder
                      /\ \E i \in 1..n : tg[i].pos \in VERB_TAGS /\ tg[i].value = RawOf(k)
                   \/ OutOf(k) = <<" ">> /\ RawOf(k) = <<>>
            /\ (n > 0 /\ InTextOrder(locals.tNorm, tg)) =>
                   /\ Len(p) = 2 * n - 1
                   /\ \A i \in 1..n :
                          /\ RawOf(2 * i - 1) = tg[i].value
                          /\ OutOf(2 * i - 1) =
                                 IF tg[i].pos \in VERB_TAGS THEN VerbPlaceholder ELSE tg[i].value
                   /\ \A i \in 1..(n - 1) :
                          /\ p[2 * i][3] = p[2 * i - 1][4]
                          /\ p[2 * i][4] = p[2 * i + 1][3]
                          /\ OutOf(2 * i) = IF RawOf(2 * i) # <<>> THEN RawOf(2 * i) ELSE <<" ">>

\* A verb replaced, a noun left as it is, and a space put in between two tokens
\* that touch in the text.
C28_Witness ==
    /\ Tagged
    /\ Len(locals.tagged) = 2
    /\ InTextOrder(locals.tNorm, locals.tagged)
    /\ locals.tagged[1].pos \in VERB_TAGS
    /\ locals.tagged[2].pos \in NOUN_TAGS
    /\ result.stream = VerbPlaceholder \o <<" ">> \o locals.tagged[2].value
    /\ RawOf(2) = <<>>

\* C28 (as stated): each token of the verb, noun, adjective or adverb class is
\* replaced by VERB, NOUN, ADJ or ADV; every other token and the original
\* whitespace between tokens are emitted unchanged.
C28_StreamAllClasses ==
    (Tagged /\ Len(locals.tagged) > 0 /\ InTextOrder(locals.tNorm, locals.tagged)) =>
        /\ Len(result.pieces) = 2 * Len(locals.tagged) - 1
        /\ \A i \in 1..Len(locals.tagged) : OutOf(2 * i - 1) = ClassPlaceholder(locals.tagged[i])
        /\ \A i \in 1..(Len(locals.tagged) - 1) : OutOf(2 * i) = RawOf(2 * i)

(***************************************************************************)
(* Properties of the candidates, checked under SpecContrast, where Stage 1 *)
(* matches anywhere in the text and Stage 2 matches map to any range of    *)
(* it, the empty ones included.                                            *)
(***************************************************************************)
\* The spans lie end to end from 0 to the length of the text.
SpansTile(spans, tNorm) ==
    /\ spans = <<>> <=> tNorm = <<>>
    /\ spans # <<>> => (spans[1][1] = 0 /\ spans[Len(spans)][2] = Len(tNorm))
    /\ \A k \in 1..(Len(spans) - 1) : spans[k][2] = spans[k + 1][1]

IndexesSpans(it, spans) == 0 <= it.lo /\ it.lo <= it.hi /\ it.hi < Len(spans)

\* C29: every candidate of either stage has 0 <= lo <= hi < number of spans and
\* raw_start < raw_end, and, the spans tiling the text, lies within the sentences
\* it names: spans[lo].start <= raw_start and raw_end <= spans[hi].end; so every
\* merged interval names existing spans.
C29_CandidatesInSpans ==
    result # Null =>
        /\ \A k \in 1..Len(locals.candidates) :
               LET c == locals.candidates[k]
               IN  /\ IndexesSpans(c, locals.spans)
                   /\ c.raw_start < c.raw_end
                   /\ SpansTile(locals.spans, locals.tNorm) =>
                          /\ locals.spans[c.lo + 1][1] <= c.raw_start
                          /\ c.raw_end <= locals.spans[c.hi + 1][2]
        /\ \A k \in 1..Len(locals.merged) : IndexesSpans(locals.merged[k], locals.spans)

\* Candidates of both stages over tiling spans, one of them reaching over two
\* sentences while starting and ending inside them.
C29_Witness ==
    /\ result # Null
    /\ SpansTile(locals.spans, locals.tNorm)
    /\ \E j, k \in 1..Len(locals.candidates) :
           /\ locals.candidates[j].pattern_name[1] = "S1_"
           /\ locals.candidates[k].pattern_name[1] = "S2_"
           /\ locals.candidates[k].hi > locals.candidates[k].lo
           /\ locals.candidates[k].raw_start > locals.spans[locals.candidates[k].lo + 1][1]
    /\ locals.merged # <<>>

(***************************************************************************)
(* Properties of the reported counts, checked under SpecScore.             *)
(***************************************************************************)
\* C30: wordCount is the number of tokens left by wordsOnlyLower and alphaTokens,
\* also when there is none, and charCount is the length of the text.
C30_Counts ==
    Scored =>
        /\ result.wordCount = Len(alphaTokens(wordsOnlyLower(text)))
        /\ result.charCount = Len(text)

==========================================================================
